---- MODULE Spec2Model ----
(***************************************************************************)
(* Verification model of the monad-dashboard backend.                      *)
(*                                                                         *)
(* Part 1: the consensus tracker (backend/consensus_tracker.go).           *)
(* Part 2: the waterfall source selection (backend/waterfall_metrics_v2.go,*)
(*         backend/waterfall_metrics.go) with the collectors it queries.   *)
(*                                                                         *)
(* The tracker's per-block record is reduced to its phase: the hash, the   *)
(* tx count and the three timestamps are written but never read by any     *)
(* transition of the tracker.                                              *)
(***************************************************************************)
EXTENDS Integers, FiniteSets, Sequences, TLC

VARIABLES
    blocks,          \* ct.blocks: tracked block number -> phase
    currentBlock,    \* ct.currentBlock
    finalizedBlock,  \* ct.finalizedBlock
    observed,        \* history: every block number passed to OnBlockProposed
    now,                  \* wall clock (time.Now()), in seconds
    prometheusCollector,  \* global *PrometheusCollector: Nil or <<collector>>
    ipcCollector,         \* global *MonadIPCCollector: Nil or <<collector>>
    monadSubscriber,      \* global *MonadSubscriber: Nil or <<subscriber>>
    wf,                   \* the waterfall returned by the latest generation
    out,                  \* the v2 waterfall built last: its path and its links
    height,          \* block height of the upstream node
    cl,              \* per downstream client: handler, goroutines, connection
    wsClients,       \* the client registry
    tpsHistory,      \* s.tpsHistory of the subscriber
    broadcaster,     \* position of processSubscribedBlocks
    undelivered,     \* history: clients a transaction-log broadcast did not reach
    writeErrors,     \* history: clients a transaction-log write to which failed
    pending,         \* numbers of the headers whose enrichment goroutine runs
    blockChan,       \* s.blockChan: the headers published to the block consumer
    recentBlocks,    \* s.recentBlocks: timestamp and tx count of the latest enriched blocks
    logsChan,        \* len(s.logsChan): the logs queued for the consumer
    lastFrame,       \* history: subscription id of the frame the listener read last
    errorChan,       \* len(s.errorChan): the read errors queued for the consumer
    scrapeErr,       \* what the latest collectMetrics call returned
    pc,              \* per goroutine: the function it runs and its position in it
    mutex            \* per sync.RWMutex: writer, read holds, goroutines waiting in Lock

trackerVars == <<blocks, currentBlock, finalizedBlock, observed>>

sourceVars == <<now, prometheusCollector, ipcCollector, monadSubscriber, wf>>

flowVars == <<out>>

wsVars == <<height, cl, wsClients, tpsHistory, broadcaster, undelivered, writeErrors>>

\* The variables outside the tracker and the source selection.
subVars == <<pending, blockChan, recentBlocks, logsChan, lastFrame, errorChan>>

scrapeVars == <<scrapeErr>>

lockVars == <<pc, mutex>>

auxVars == <<flowVars, wsVars, subVars, scrapeVars, lockVars>>

notFlow == <<trackerVars, sourceVars, wsVars, subVars, scrapeVars, lockVars>>

notWs == <<trackerVars, sourceVars, flowVars, subVars, scrapeVars, lockVars>>

notLocks == <<trackerVars, sourceVars, flowVars, wsVars, subVars, scrapeVars>>

vars == <<blocks, currentBlock, finalizedBlock, observed,
          now, prometheusCollector, ipcCollector, monadSubscriber, wf, out,
          height, cl, wsClients, tpsHistory, broadcaster, undelivered, writeErrors,
          pending, blockChan, recentBlocks, logsChan, lastFrame, errorChan, scrapeErr,
          pc, mutex>>

(***************************************************************************)
(* Bounds of the model.                                                    *)
(***************************************************************************)
\* Block numbers 0..FreeMax may be observed in any order, with gaps and repeats.
FreeMax == 4
\* Highest block number observed; above FreeMax blocks arrive consecutively.
MaxBlock == 23
\* Last instant of the wall clock.
MaxTime == 15
\* Largest cumulative value of the tx-commits counter in a scraped document.
MaxCommits == 2
\* Largest cumulative value of an insert counter in a scraped document.
MaxInsert == 1
\* Largest growth of a txpool counter between two scrapes of a snapshot handed
\* to the waterfall generator (a counter reset gives -1).
MaxDiff == 2
\* Largest tx count of a latest block handed to the block estimation.
MaxTxs == 600
\* Points appended to the TPS history.
MaxPoints == 3
\* Time since a client's latest estimated_tps message is measured up to here (ms).
MaxElapsedMs == 1000
\* Highest block height of the upstream node.
MaxHeight == 2
\* Messages of a connection's output that are recorded.
MaxWire == 8
\* Number of the last header the upstream delivers.
MaxHeads == 3
\* Logs queued in s.logsChan at a time.
MaxLogs == 2
\* Blocks inserted into the recent-blocks window (beyond its cap of 10).
MaxWindowInserts == 12
\* Points appended to the TPS history (beyond its cap of 200).
MaxAppends == 202

(***************************************************************************)
(* Consensus tracker                                                       *)
(***************************************************************************)
\* InitializeConsensusTracker: maxHistory: 20
maxHistory == 20

Phases == {"proposed", "voted", "finalized"}

\* map lookup `block, exists := ct.blocks[n]`
Exists(bs, n) == n \in DOMAIN bs

\* ct.blocks[blockNum] = &BlockConsensusState{Phase: "proposed", ...} when absent
Upsert(bs, blockNum) ==
    IF Exists(bs, blockNum) THEN bs
    ELSE [b \in DOMAIN bs \cup {blockNum} |->
            IF b \in DOMAIN bs THEN bs[b] ELSE "proposed"]

\* block.Phase = p on an existing entry
SetPhase(bs, n, p) == [bs EXCEPT ![n] = p]

\* updatePhases with the transition of block N-1 to voted left unguarded, the
\* way OnBlockVoted writes it.
updatePhasesUnguarded(bs, fin, currentBlockNum) ==
    LET voted ==
            IF /\ currentBlockNum >= 1
               /\ Exists(bs, currentBlockNum - 1)
            THEN SetPhase(bs, currentBlockNum - 1, "voted")
            ELSE bs
        finalize ==
            /\ currentBlockNum >= 2
            /\ Exists(voted, currentBlockNum - 2)
            /\ voted[currentBlockNum - 2] # "finalized"
    IN  [blocks |-> IF finalize
                    THEN SetPhase(voted, currentBlockNum - 2, "finalized")
                    ELSE voted,
         finalizedBlock |-> IF finalize THEN currentBlockNum - 2 ELSE fin]

\* updatePhases(currentBlockNum): returns the new map and finalized marker.
updatePhases(bs, fin, currentBlockNum) ==
    LET voted ==
            IF /\ currentBlockNum >= 1
               /\ Exists(bs, currentBlockNum - 1)
               /\ bs[currentBlockNum - 1] = "proposed"
            THEN SetPhase(bs, currentBlockNum - 1, "voted")
            ELSE bs
        finalize ==
            /\ currentBlockNum >= 2
            /\ Exists(voted, currentBlockNum - 2)
            /\ voted[currentBlockNum - 2] # "finalized"
    IN  [blocks |-> IF finalize
                    THEN SetPhase(voted, currentBlockNum - 2, "finalized")
                    ELSE voted,
         finalizedBlock |-> IF finalize THEN currentBlockNum - 2 ELSE fin]

\* blockNum < threshold, threshold := ct.currentBlock - uint64(ct.maxHistory).
\* The subtraction is unsigned 64-bit: when currentBlock < maxHistory it wraps
\* to 2^64 - (maxHistory - currentBlock), above every block number modelled.
BelowThreshold(blockNum, cur) ==
    IF cur >= maxHistory THEN blockNum < cur - maxHistory ELSE TRUE

\* cleanupOldBlocks
cleanupOldBlocks(bs, cur) ==
    IF Cardinality(DOMAIN bs) <= maxHistory THEN bs
    ELSE [b \in {x \in DOMAIN bs : ~BelowThreshold(x, cur)} |-> bs[b]]

\* OnBlockProposed with ct.currentBlock = blockNum assigned without the
\* comparison blockNum > ct.currentBlock.
ProposedOverwritesCurrent(bs, cur, fin, blockNum) ==
    LET up == updatePhases(Upsert(bs, blockNum), fin, blockNum)
    IN  [blocks |-> cleanupOldBlocks(up.blocks, blockNum),
         currentBlock |-> blockNum,
         finalizedBlock |-> up.finalizedBlock]

\* The tracker state after OnBlockProposed(blockNum, hash, txCount) on
\* the state <<bs, cur, fin>>.
Proposed(bs, cur, fin, blockNum) ==
    LET cur1 == IF blockNum > cur THEN blockNum ELSE cur
        up   == updatePhases(Upsert(bs, blockNum), fin, blockNum)
    IN  [blocks |-> cleanupOldBlocks(up.blocks, cur1),
         currentBlock |-> cur1,
         finalizedBlock |-> up.finalizedBlock]

OnBlockProposed(blockNum) ==
    LET r == Proposed(blocks, currentBlock, finalizedBlock, blockNum)
    IN  /\ blocks' = r.blocks
        /\ currentBlock' = r.currentBlock
        /\ finalizedBlock' = r.finalizedBlock
        /\ observed' = observed \cup {blockNum}
        /\ UNCHANGED <<sourceVars, auxVars>>

OnBlockVoted(blockNum) ==
    /\ blocks' = IF Exists(blocks, blockNum)
                 THEN SetPhase(blocks, blockNum, "voted")
                 ELSE blocks
    /\ UNCHANGED <<currentBlock, finalizedBlock, observed, sourceVars, auxVars>>

OnBlockFinalized(blockNum) ==
    /\ blocks' = IF Exists(blocks, blockNum)
                 THEN SetPhase(blocks, blockNum, "finalized")
                 ELSE blocks
    /\ finalizedBlock' = IF Exists(blocks, blockNum) /\ blockNum > finalizedBlock
                         THEN blockNum
                         ELSE finalizedBlock
    /\ UNCHANGED <<currentBlock, observed, sourceVars, auxVars>>

GetBlockPhase(blockNum) ==
    IF Exists(blocks, blockNum) THEN blocks[blockNum] ELSE "unknown"

\* ct.currentBlock - ct.finalizedBlock on uint64: wrap = TRUE stands for the
\* wrapped value 2^64 - v.
USub(a, b) ==
    IF a >= b THEN [wrap |-> FALSE, v |-> a - b] ELSE [wrap |-> TRUE, v |-> b - a]

CountPhase(p) == Cardinality({b \in DOMAIN blocks : blocks[b] = p})

GetConsensusState ==
    [current_block    |-> currentBlock,
     finalized_block  |-> finalizedBlock,
     blocks_behind    |-> USub(currentBlock, finalizedBlock),
     proposed_blocks  |-> CountPhase("proposed"),
     voted_blocks     |-> CountPhase("voted"),
     finalized_blocks |-> CountPhase("finalized")]

(***************************************************************************)
(* Collectors and subscriber queried by the waterfall generators           *)
(***************************************************************************)
\* A nil pointer; a non-nil pointer is the one-element sequence <<object>>.
Nil == <<>>

\* time.NewTicker(5 * time.Second): the scrape period; the clock advances in
\* steps of this length.
ScrapePeriod == 5
\* PrometheusCollector.IsHealthy: time.Since(LastUpdated) < 10*time.Second
PromFreshness == 10
\* MonadIPCCollector.IsHealthy: time.Since(LastUpdated) < 5*time.Second
IPCFreshness == 5

RECURSIVE GCD(_, _)
GCD(a, b) == IF b = 0 THEN a ELSE GCD(b, a % b)

Abs(x) == IF x < 0 THEN 0 - x ELSE x

\* The float64 quotient diff / timeDiff (timeDiff > 0), kept as the reduced
\* fraction num/den.
Quot(diff, timeDiff) ==
    LET g == GCD(Abs(diff), timeDiff)
    IN  [num |-> diff \div g, den |-> timeDiff \div g]

ZeroRate == [num |-> 0, den |-> 1]

\* rate > 0 on float64
Positive(r) == r.num > 0

\* The counters of one scraped document; a metric missing from the document
\* leaves its field at 0.
Documents ==
    [TxCommitsTotal : 0..MaxCommits,
     InsertOwnedTxsTotal : 0..MaxInsert,
     InsertForwardedTxsTotal : 0..MaxInsert]

\* NewPrometheusCollector at time t; started records that Start() has run.
NewPrometheusCollector(t) ==
    [TxCommitsTotal |-> 0, InsertOwnedTxsTotal |-> 0, InsertForwardedTxsTotal |-> 0,
     TPS60s |-> ZeroRate, InsertOwnedTxsRate |-> ZeroRate,
     InsertForwardedTxsRate |-> ZeroRate,
     LastUpdated |-> t, LastUpdateTime |-> t, started |-> FALSE]

\* parseMetrics with newMetrics starting from a copy of the previous snapshot:
\* the rates keep their earlier values when they are not computed.
parseMetricsKeepsRates(prev, doc, t) ==
    LET timeDiff == t - prev.LastUpdateTime
        rates    == timeDiff > 0 /\ prev.TxCommitsTotal > 0
    IN  [TxCommitsTotal |-> doc.TxCommitsTotal,
         InsertOwnedTxsTotal |-> doc.InsertOwnedTxsTotal,
         InsertForwardedTxsTotal |-> doc.InsertForwardedTxsTotal,
         TPS60s |->
             IF rates THEN Quot(doc.TxCommitsTotal - prev.TxCommitsTotal, timeDiff)
             ELSE prev.TPS60s,
         InsertOwnedTxsRate |->
             IF rates
             THEN Quot(doc.InsertOwnedTxsTotal - prev.InsertOwnedTxsTotal, timeDiff)
             ELSE prev.InsertOwnedTxsRate,
         InsertForwardedTxsRate |->
             IF rates
             THEN Quot(doc.InsertForwardedTxsTotal - prev.InsertForwardedTxsTotal,
                       timeDiff)
             ELSE prev.InsertForwardedTxsRate,
         LastUpdated |-> t, LastUpdateTime |-> t, started |-> prev.started]

\* parseMetrics of a complete document doc at time t over the snapshot prev.
parseMetrics(prev, doc, t) ==
    LET timeDiff == t - prev.LastUpdateTime
        rates    == timeDiff > 0 /\ prev.TxCommitsTotal > 0
    IN  [TxCommitsTotal |-> doc.TxCommitsTotal,
         InsertOwnedTxsTotal |-> doc.InsertOwnedTxsTotal,
         InsertForwardedTxsTotal |-> doc.InsertForwardedTxsTotal,
         TPS60s |->
             IF rates THEN Quot(doc.TxCommitsTotal - prev.TxCommitsTotal, timeDiff)
             ELSE ZeroRate,
         InsertOwnedTxsRate |->
             IF rates
             THEN Quot(doc.InsertOwnedTxsTotal - prev.InsertOwnedTxsTotal, timeDiff)
             ELSE ZeroRate,
         InsertForwardedTxsRate |->
             IF rates
             THEN Quot(doc.InsertForwardedTxsTotal - prev.InsertForwardedTxsTotal,
                       timeDiff)
             ELSE ZeroRate,
         LastUpdated |-> t, LastUpdateTime |-> t, started |-> prev.started]

\* What collectMetrics returns: nil, or the error of httpClient.Get, of the
\* status test, or of scanner.Err() after a read error within the body.
ScrapeFailures == {"fetch", "status", "read"}

ScrapeOutcomes == {"nil"} \cup ScrapeFailures

\* collectMetrics with parseMetrics storing newMetrics in c.metrics before it
\* looks at scanner.Err().
CollectedPublishesPartial(prev, outcome, doc, t) ==
    IF outcome \in {"nil", "read"} THEN parseMetrics(prev, doc, t) ELSE prev

\* c.metrics after collectMetrics at time t over the snapshot prev; doc holds
\* the counters of the lines scanned (all of them, or those before the read
\* error). Every error return precedes the assignment c.metrics = newMetrics.
Collected(prev, outcome, doc, t) ==
    IF outcome = "nil" THEN parseMetrics(prev, doc, t) ELSE prev

\* InitializePrometheusCollector: the collector is published before the test
\* scrape; Start() runs only when that scrape succeeded. (Start() scrapes once
\* more at once: over the same counters that leaves the snapshot as it is.)
InitializePrometheusCollector(ok, doc) ==
    /\ prometheusCollector = Nil
    /\ prometheusCollector' =
           IF ok
           THEN <<[Collected(NewPrometheusCollector(now), "nil", doc, now)
                       EXCEPT !.started = TRUE]>>
           ELSE <<NewPrometheusCollector(now)>>
    /\ scrapeErr' = IF ok THEN "nil" ELSE "fetch"
    /\ UNCHANGED <<trackerVars, flowVars, wsVars, subVars, lockVars,
                   now, ipcCollector, monadSubscriber, wf>>

\* collectMetrics on a ticker tick, returning outcome.
collectMetrics(outcome, doc) ==
    /\ prometheusCollector # Nil
    /\ prometheusCollector[1].started
    /\ prometheusCollector' =
           <<Collected(prometheusCollector[1], outcome, doc, now)>>
    /\ scrapeErr' = outcome
    /\ UNCHANGED <<trackerVars, flowVars, wsVars, subVars, lockVars,
                   now, ipcCollector, monadSubscriber, wf>>

PromIsHealthy(c) == now - c.LastUpdated < PromFreshness

\* NewMonadIPCCollector at time t; polling records that Connect() succeeded
\* and the collectMetrics goroutine runs.
NewMonadIPCCollector(t) ==
    [InsertOwnedTxs |-> 0, InsertForwardedTxs |-> 0,
     LastUpdated |-> t, polling |-> FALSE]

InitializeIPCCollector(ok) ==
    /\ ipcCollector = Nil
    /\ ipcCollector' = <<[NewMonadIPCCollector(now) EXCEPT !.polling = ok]>>
    /\ UNCHANGED <<trackerVars, auxVars, now, prometheusCollector, monadSubscriber, wf>>

\* What requestMetrics returns: nil, or the error of net.Dial, conn.Write,
\* conn.Read or json.Unmarshal.
PollFailures == {"dial", "write", "read", "parse"}

PollOutcomes == {"nil"} \cup PollFailures

\* The JSON documents the socket answers with: a reply with the result object
\* and its txpool counters, or a JSON-RPC error reply, which has no result.
IPCReplies ==
    [hasResult : {TRUE}, insert_owned_txs : 0..MaxInsert,
     insert_forwarded_txs : 0..MaxInsert]
    \cup {[hasResult |-> FALSE, insert_owned_txs |-> 0, insert_forwarded_txs |-> 0]}

\* json.Unmarshal(buffer[:n], &response): a key missing from the document
\* leaves its field of the freshly declared response at the zero value.
Unmarshal(reply) ==
    [InsertOwnedTxs |-> IF reply.hasResult THEN reply.insert_owned_txs ELSE 0,
     InsertForwardedTxs |-> IF reply.hasResult THEN reply.insert_forwarded_txs ELSE 0]

\* requestMetrics on a tick of the collectMetrics goroutine, returning
\* outcome; reply is the document read when Dial, Write and Read succeeded.
\* Every error return precedes the update of c.metrics; after a successful
\* Unmarshal the fields of response are copied and LastUpdated = time.Now().
requestMetrics(outcome, reply) ==
    /\ ipcCollector # Nil
    /\ ipcCollector[1].polling
    /\ ipcCollector' =
           IF outcome = "nil"
           THEN <<[ipcCollector[1] EXCEPT
                      !.InsertOwnedTxs = Unmarshal(reply).InsertOwnedTxs,
                      !.InsertForwardedTxs = Unmarshal(reply).InsertForwardedTxs,
                      !.LastUpdated = now]>>
           ELSE ipcCollector
    /\ UNCHANGED <<trackerVars, auxVars, now, prometheusCollector, monadSubscriber, wf>>

IPCIsHealthy(c) == now - c.LastUpdated < IPCFreshness

\* Tx counts eth_getBlockByNumber reports for a block.
BlockTxs == {200}

\* The subscription ids the upstream answers eth_subscribe with, and an id of
\* no subscription of this connection.
HeadsId == "0xheads"

LogsId == "0xlogs"

UnknownId == "0xother"

SubIds == {HeadsId, LogsId, UnknownId}

\* The upstream's reply to an eth_subscribe request, and a subscription
\* notification, as JSON objects.
SubscribeReply(id, subID) == [jsonrpc |-> "2.0", id |-> id, result |-> subID]

Notification(subID) ==
    [jsonrpc |-> "2.0", method |-> "eth_subscription",
     params |-> [subscription |-> subID]]

\* What Connect may read after its monadLogs request: the reply to it, or a
\* newHeads notification of the subscription made just before.
SecondFrames == {SubscribeReply(2, LogsId), Notification(HeadsId)}

\* conn.ReadJSON into a struct with the members jsonrpc, id and result: the
\* other members of the frame are ignored, a missing result leaves "".
ReadSubscribeResponse(frame) ==
    IF "result" \in DOMAIN frame THEN frame.result ELSE ""

\* The ids Connect stores: the result of the frame read after the newHeads
\* request (its reply: nothing else is subscribed yet) and the result of the
\* frame read after the monadLogs request.
ConnectIds(second) ==
    [headsSubID |-> ReadSubscribeResponse(SubscribeReply(1, HeadsId)),
     logsSubID  |-> ReadSubscribeResponse(second)]

\* InitializeSubscriber: NewMonadSubscriber, then Connect; a successful dial
\* sets isConnected, stores the two subscription ids and starts the listener
\* on the open connection. listener is the position of the listener
\* goroutine: "none" (not running), "top" (at the select on ctx.Done()) or
\* "reading" (in conn.ReadJSON); cancelled: s.cancel() has been called.
InitializeSubscriber(dialOk, second) ==
    /\ monadSubscriber = Nil
    /\ monadSubscriber' =
           <<[isConnected |-> dialOk, latestBlock |-> Nil, conn |-> dialOk,
              headsSubID |-> IF dialOk THEN ConnectIds(second).headsSubID ELSE "",
              logsSubID  |-> IF dialOk THEN ConnectIds(second).logsSubID ELSE "",
              listener   |-> IF dialOk THEN "reading" ELSE "none",
              cancelled  |-> FALSE]>>
    /\ UNCHANGED <<trackerVars, auxVars, now, prometheusCollector, ipcCollector, wf>>

\* header.timestamp of block n, in seconds: the chain produces a block every
\* 0.4 s.
BlockTimestamp(n) == (2 * n) \div 5

\* parseBlockHeader of a newHeads notification for block n: the notification
\* carries no transactions list, so txCount stays 0. enriched records whether
\* enrichBlockWithTransactions has set the tx count of this header.
parseBlockHeader(n) ==
    [Number |-> n, Timestamp |-> BlockTimestamp(n), Transactions |-> 0,
     enriched |-> FALSE]

\* Number of the next header: the upstream delivers consecutive blocks.
NextHead ==
    IF monadSubscriber[1].latestBlock = Nil THEN 1
    ELSE monadSubscriber[1].latestBlock[1].Number + 1

\* handleBlockMessage: s.latestBlock = header, then the goroutine that
\* enriches and publishes the header is started.
handleBlockMessage(n) ==
    /\ monadSubscriber # Nil
    /\ monadSubscriber[1].conn
    /\ monadSubscriber[1].listener = "reading"
    /\ n = NextHead
    /\ monadSubscriber' =
           <<[monadSubscriber[1] EXCEPT !.latestBlock = <<parseBlockHeader(n)>>]>>
    /\ pending' = pending \cup {n}
    /\ UNCHANGED <<trackerVars, flowVars, wsVars, scrapeVars, lockVars, blockChan, recentBlocks,
                   logsChan, errorChan, now, prometheusCollector, ipcCollector, wf>>

\* cap(s.blockChan)
blockChanCap == 100

\* NewMonadSubscriber: maxRecentBlocks: 10
maxRecentBlocks == 10

\* addRecentBlock with the window cut from the wrong end: the entry before
\* the new one is dropped.
addRecentBlockDropsNewest(rb, timestamp, txCount) ==
    LET info == [Timestamp |-> timestamp, Transactions |-> txCount]
    IN  IF Len(rb) + 1 > maxRecentBlocks
        THEN Append(SubSeq(rb, 1, Len(rb) - 1), info)
        ELSE Append(rb, info)

\* addRecentBlock(timestamp, txCount)
addRecentBlock(rb, timestamp, txCount) ==
    LET a == Append(rb, [Timestamp |-> timestamp, Transactions |-> txCount])
    IN  IF Len(a) > maxRecentBlocks THEN Tail(a) ELSE a

\* The loop of calculateOneSecondTPS, from index i down: it adds the tx
\* counts while the timestamps are >= oneSecondAgo and breaks at the first
\* older block.
RECURSIVE SumBackwards(_, _, _)
SumBackwards(rb, i, oneSecondAgo) ==
    IF i = 0 THEN 0
    ELSE IF rb[i].Timestamp >= oneSecondAgo
         THEN rb[i].Transactions + SumBackwards(rb, i - 1, oneSecondAgo)
         ELSE 0

\* calculateOneSecondTPS over the window rb
calculateOneSecondTPS(rb) ==
    IF Len(rb) < 2 THEN 0
    ELSE SumBackwards(rb, Len(rb), rb[Len(rb)].Timestamp - 1)

\* The goroutine of handleBlockMessage for header n: enrichBlockWithTransactions
\* (fetchOk: eth_getBlockByNumber answered, with txs transactions) writes the
\* tx count into the header object, which s.latestBlock still points to when
\* no later header has arrived; then the header is sent to s.blockChan, or
\* skipped when the channel is full.
enrichBlockWithTransactions(n, fetchOk, txs) ==
    LET header == IF fetchOk
                  THEN [parseBlockHeader(n) EXCEPT !.Transactions = txs,
                                                   !.enriched = TRUE]
                  ELSE parseBlockHeader(n)
    IN  /\ n \in pending
        /\ monadSubscriber # Nil
        /\ pending' = pending \ {n}
        /\ monadSubscriber' =
               IF monadSubscriber[1].latestBlock # Nil
                  /\ monadSubscriber[1].latestBlock[1].Number = n
               THEN <<[monadSubscriber[1] EXCEPT !.latestBlock = <<header>>]>>
               ELSE monadSubscriber
        /\ recentBlocks' = IF fetchOk
                           THEN addRecentBlock(recentBlocks, header.Timestamp, txs)
                           ELSE recentBlocks
        /\ blockChan' = IF Len(blockChan) < blockChanCap
                        THEN Append(blockChan, header)
                        ELSE blockChan
        /\ UNCHANGED <<trackerVars, flowVars, wsVars, scrapeVars, lockVars, logsChan, lastFrame,
                       errorChan,
                       now, prometheusCollector, ipcCollector, wf>>

\* cap(s.logsChan)
logsChanCap == 1000

\* handleLogsMessage: parseTransactionLog (parsed: the result carries a
\* readable blockNumber), then the non-blocking send to s.logsChan.
handleLogsMessage(parsed) ==
    /\ logsChan' = IF parsed /\ logsChan < logsChanCap THEN logsChan + 1
                   ELSE logsChan
    /\ UNCHANGED <<trackerVars, sourceVars, flowVars, wsVars, scrapeVars, lockVars,
                   pending, blockChan, recentBlocks, errorChan>>

\* listen with every frame routed to handleLogsMessage unless it is a block
\* frame.
listenFrameDefaultsToLogs(subID, n, parsed) ==
    /\ monadSubscriber # Nil
    /\ monadSubscriber[1].conn
    /\ monadSubscriber[1].listener = "reading"
    /\ subID # monadSubscriber[1].headsSubID => logsChan < MaxLogs
    /\ lastFrame' = subID
    /\ IF subID = monadSubscriber[1].headsSubID
       THEN handleBlockMessage(n)
       ELSE handleLogsMessage(parsed)

\* listen reads an eth_subscription frame with params.subscription = subID
\* (a frame for block n, or a log) and routes it by the stored ids; a frame
\* matching neither id falls through both branches.
listenFrame(subID, n, parsed) ==
    /\ monadSubscriber # Nil
    /\ monadSubscriber[1].conn
    /\ monadSubscriber[1].listener = "reading"
    /\ subID # monadSubscriber[1].headsSubID => logsChan < MaxLogs
    /\ lastFrame' = subID
    /\ IF subID = monadSubscriber[1].headsSubID
       THEN handleBlockMessage(n)
       ELSE IF subID = monadSubscriber[1].logsSubID
            THEN handleLogsMessage(parsed)
            ELSE UNCHANGED <<trackerVars, sourceVars, flowVars, wsVars, scrapeVars, lockVars,
                             pending, blockChan, recentBlocks, logsChan, errorChan>>

\* processSubscribedBlocks receives a log from LogsChannel() while no client
\* is registered: broadcastToAllClients has nobody to write to.
processSubscribedLogs ==
    /\ logsChan > 0
    /\ broadcaster = "idle"
    /\ wsClients = {}
    /\ logsChan' = logsChan - 1
    /\ UNCHANGED <<trackerVars, sourceVars, flowVars, wsVars, scrapeVars, lockVars,
                   pending, blockChan, recentBlocks, lastFrame, errorChan>>

\* GetLatestBlock
GetLatestBlock == monadSubscriber[1].latestBlock

\* processSubscribedBlocks receives a block from BlockChannel():
\* updateMetricsFromBlock calls consensusTracker.OnBlockProposed.
processSubscribedBlocks ==
    LET r == Proposed(blocks, currentBlock, finalizedBlock, Head(blockChan).Number)
    IN  /\ blockChan # <<>>
        /\ broadcaster = "idle"
        /\ blockChan' = Tail(blockChan)
        /\ blocks' = r.blocks
        /\ currentBlock' = r.currentBlock
        /\ finalizedBlock' = r.finalizedBlock
        /\ observed' = observed \cup {Head(blockChan).Number}
        /\ UNCHANGED <<sourceVars, flowVars, wsVars, scrapeVars, lockVars, pending, recentBlocks,
                       logsChan, lastFrame, errorChan>>

\* cap(s.errorChan)
errorChanCap == 10

\* reconnect() from listen: it closes the connection, clears isConnected and
\* dials again, whether or not the context is cancelled. After a successful
\* dial Connect starts a new listener, the old listener returns and its
\* deferred function clears isConnected once more; after a failed dial the
\* old listener continues with the next iteration. Either way one listener
\* is left, which is back in ReadJSON at once unless the context is
\* cancelled.
reconnect(dialOk) ==
    <<[monadSubscriber[1] EXCEPT
          !.isConnected = FALSE,
          !.conn = dialOk,
          !.headsSubID = IF dialOk
                         THEN ConnectIds(SubscribeReply(2, LogsId)).headsSubID ELSE @,
          !.logsSubID  = IF dialOk
                         THEN ConnectIds(SubscribeReply(2, LogsId)).logsSubID ELSE @,
          !.listener   = IF monadSubscriber[1].cancelled
                         THEN "top" ELSE "reading"]>>

\* listen on a read error: s.errorChan <- err, which waits while the channel
\* is full, then the sleep and reconnect().
listenReadError(dialOk) ==
    /\ monadSubscriber # Nil
    /\ monadSubscriber[1].listener = "reading"
    /\ IF errorChan < errorChanCap
       THEN /\ errorChan' = errorChan + 1
            /\ monadSubscriber' = reconnect(dialOk)
       ELSE /\ errorChan' = errorChan
            /\ monadSubscriber' = <<[monadSubscriber[1] EXCEPT !.listener = "sending"]>>
    /\ UNCHANGED <<trackerVars, flowVars, wsVars, scrapeVars, lockVars,
                   pending, blockChan, recentBlocks, logsChan, lastFrame,
                   now, prometheusCollector, ipcCollector, wf>>

\* The send to s.errorChan the listener waits in goes through once the
\* consumer has made room; the listener goes on to reconnect().
listenErrorSent(dialOk) ==
    /\ monadSubscriber # Nil
    /\ monadSubscriber[1].listener = "sending"
    /\ errorChan < errorChanCap
    /\ errorChan' = errorChan + 1
    /\ monadSubscriber' = reconnect(dialOk)
    /\ UNCHANGED <<trackerVars, flowVars, wsVars, scrapeVars, lockVars,
                   pending, blockChan, recentBlocks, logsChan, lastFrame,
                   now, prometheusCollector, ipcCollector, wf>>

\* listen on a read error while processSubscribedBlocks waits in its select
\* with s.errorChan empty: the error sent is received and logged at once and
\* the listener goes on to reconnect().
listenReadErrorLogged(dialOk) ==
    /\ monadSubscriber # Nil
    /\ monadSubscriber[1].listener = "reading"
    /\ errorChan = 0
    /\ broadcaster = "idle"
    /\ monadSubscriber' = reconnect(dialOk)
    /\ UNCHANGED <<trackerVars, auxVars, now, prometheusCollector, ipcCollector, wf>>

\* processSubscribedBlocks receives an error from s.errorChan and logs it.
processSubscribedErrors ==
    /\ errorChan > 0
    /\ broadcaster = "idle"
    /\ errorChan' = errorChan - 1
    /\ UNCHANGED <<trackerVars, sourceVars, flowVars, wsVars, scrapeVars, lockVars,
                   pending, blockChan, recentBlocks, logsChan, lastFrame>>

\* listen at the top of its loop with the context cancelled: it returns, and
\* the deferred function clears isConnected.
listenCancelled ==
    /\ monadSubscriber # Nil
    /\ monadSubscriber[1].listener = "top"
    /\ monadSubscriber[1].cancelled
    /\ monadSubscriber' =
           <<[monadSubscriber[1] EXCEPT !.listener = "none", !.isConnected = FALSE]>>
    /\ UNCHANGED <<trackerVars, auxVars, now, prometheusCollector, ipcCollector, wf>>

\* Close: s.cancel(), the two eth_unsubscribe requests, s.conn.Close().
\* atTop: the listener was between two iterations at that instant, so its
\* next select finds the context cancelled; otherwise it is in ReadJSON, which
\* fails on the closed connection.
Close(atTop) ==
    /\ monadSubscriber # Nil
    /\ ~monadSubscriber[1].cancelled
    /\ monadSubscriber' =
           <<[monadSubscriber[1] EXCEPT
                 !.cancelled = TRUE,
                 !.conn = FALSE,
                 !.listener = IF @ = "reading" /\ atTop THEN "top" ELSE @]>>
    /\ UNCHANGED <<trackerVars, auxVars, now, prometheusCollector, ipcCollector, wf>>

\* The wall clock advances.
Tick ==
    /\ now + ScrapePeriod <= MaxTime
    /\ now' = now + ScrapePeriod
    /\ UNCHANGED <<trackerVars, auxVars, prometheusCollector, ipcCollector, monadSubscriber, wf>>

(***************************************************************************)
(* Waterfall generators: source selection and source tag                   *)
(***************************************************************************)
\* Each generator returns the branch it took (selected) and the value of
\* metadata.source of the map it built ("absent": the key is not set).
generateMonadWaterfallFromPrometheus ==
    [selected |-> "prometheus", source |-> "prometheus_metrics"]

generateMonadMockWaterfall == [selected |-> "mock", source |-> "mock_data"]

\* generateMonadWaterfallFromIPC returns generateMonadMockWaterfall()
generateMonadWaterfallFromIPC ==
    [selected |-> "ipc", source |-> generateMonadMockWaterfall.source]

generateMonadWaterfallFromBlock ==
    [selected |-> "block", source |-> "block_estimation"]

\* promCollector != nil && promCollector.IsHealthy() && TPS60s > 0 &&
\* (InsertOwnedTxsRate > 0 || InsertForwardedTxsRate > 0)
UsePrometheus ==
    /\ prometheusCollector # Nil
    /\ PromIsHealthy(prometheusCollector[1])
    /\ Positive(prometheusCollector[1].TPS60s)
    /\ \/ Positive(prometheusCollector[1].InsertOwnedTxsRate)
       \/ Positive(prometheusCollector[1].InsertForwardedTxsRate)

\* ipcCollector != nil && ipcCollector.IsHealthy()
UseIPC == ipcCollector # Nil /\ IPCIsHealthy(ipcCollector[1])

\* monadSubscriber != nil && monadSubscriber.IsConnected() && block != nil
UseBlock ==
    /\ monadSubscriber # Nil
    /\ monadSubscriber[1].isConnected
    /\ monadSubscriber[1].latestBlock # Nil

\* GenerateMonadWaterfall
GenerateMonadWaterfall ==
    IF UsePrometheus THEN generateMonadWaterfallFromPrometheus
    ELSE IF UseIPC THEN generateMonadWaterfallFromIPC
    ELSE IF UseBlock THEN generateMonadWaterfallFromBlock
    ELSE generateMonadMockWaterfall

\* The block estimation of GenerateWaterfallFromSubscriber builds a metadata
\* map without a source key.
GenerateWaterfallFromSubscriberBlock == [selected |-> "block", source |-> "absent"]

\* GenerateWaterfallFromSubscriber (legacy flat shape)
GenerateWaterfallFromSubscriber ==
    IF UsePrometheus THEN [selected |-> "prometheus", source |-> "prometheus_metrics"]
    ELSE IF UseIPC THEN [selected |-> "ipc", source |-> "real_ipc_metrics"]
    ELSE IF ~UseBlock THEN [selected |-> "mock", source |-> "mock_data"]
    ELSE GenerateWaterfallFromSubscriberBlock

\* A consumer (HTTP handler or broadcast tick) generates a v2 waterfall.
GenerateV2 ==
    /\ wf' = [gen |-> "v2", selected |-> GenerateMonadWaterfall.selected,
              source |-> GenerateMonadWaterfall.source]
    /\ UNCHANGED <<trackerVars, auxVars, now, prometheusCollector, ipcCollector, monadSubscriber>>

\* A consumer generates a legacy waterfall.
GenerateLegacy ==
    /\ wf' = [gen |-> "legacy", selected |-> GenerateWaterfallFromSubscriber.selected,
              source |-> GenerateWaterfallFromSubscriber.source]
    /\ UNCHANGED <<trackerVars, auxVars, now, prometheusCollector, ipcCollector, monadSubscriber>>

(***************************************************************************)
(* Waterfall generators: the links of the v2 (Sankey) output               *)
(***************************************************************************)
\* interval := 5.0, the collection interval for rate-to-count conversion
interval == 5

\* int64(rate), the rate not multiplied by the collection interval
Int64OfRatePerSecond(r) ==
    IF r.num >= 0 THEN r.num \div r.den ELSE 0 - ((0 - r.num) \div r.den)

\* int64(rate * interval): the product truncated toward zero
Int64OfRate(r) ==
    LET p == r.num * interval
    IN  IF p >= 0 THEN p \div r.den ELSE 0 - ((0 - p) \div r.den)

\* Go's integer division a / b for b > 0: truncation toward zero
GoDiv(a, b) == IF a >= 0 THEN a \div b ELSE 0 - ((0 - a) \div b)

\* One element of the links array
Link(s, t, v) == [source |-> s, target |-> t, value |-> v]

\* `if cond { links = append(links, l) }`
AppendIf(cond, l) == IF cond THEN <<l>> ELSE <<>>

\* The links array built by generateMonadWaterfallFromPrometheus(metrics)
PrometheusLinks(metrics) ==
    LET rpcReceived == Int64OfRate(metrics.InsertOwnedTxsRate)
        p2pReceived == Int64OfRate(metrics.InsertForwardedTxsRate)
        invalidSig  == Int64OfRate(metrics.DropInvalidSignatureRate)
        toMempool   == rpcReceived + p2pReceived - invalidSig
        nonceInvalid == Int64OfRate(metrics.DropNonceTooLowRate)
        insufficientBalance == Int64OfRate(metrics.DropInsufficientBalanceRate)
        blockFull   == Int64OfRate(metrics.DropPoolFullRate)
        feeDropped  == Int64OfRate(metrics.DropFeeTooLowRate)
        toBlockBuilding == toMempool - nonceInvalid
        toConsensus == toBlockBuilding - insufficientBalance - blockFull - feeDropped
        toExecution == toConsensus
        toStateUpdate == toExecution
        toFinality  == toStateUpdate
    IN  AppendIf(rpcReceived > 0, Link("submission_rpc", "mempool", rpcReceived))
        \o AppendIf(p2pReceived > 0, Link("submission_p2p", "mempool", p2pReceived))
        \o AppendIf(toBlockBuilding > 0,
                    Link("mempool", "block_building", toBlockBuilding))
        \o AppendIf(invalidSig + nonceInvalid > 0,
                    Link("mempool", "dropped", invalidSig + nonceInvalid))
        \o AppendIf(toConsensus > 0,
                    Link("block_building", "consensus_proposed", toConsensus))
        \o AppendIf(insufficientBalance + blockFull + feeDropped > 0,
                    Link("block_building", "dropped",
                         insufficientBalance + blockFull + feeDropped))
        \o (IF toConsensus > 0
            THEN <<Link("consensus_proposed", "consensus_voted", toConsensus),
                   Link("consensus_voted", "consensus_finalized", toConsensus),
                   Link("consensus_finalized", "execution", toExecution)>>
            ELSE <<>>)
        \o AppendIf(toStateUpdate > 0, Link("execution", "state_update", toStateUpdate))
        \o AppendIf(toFinality > 0, Link("state_update", "finality", toFinality))

\* The links array built by generateMonadWaterfallFromBlock(block),
\* txCount := int64(block.Transactions)
BlockLinks(txCount) ==
    LET rpcReceived  == GoDiv(txCount * 5, 10)
        p2pReceived  == GoDiv(txCount * 5, 10)
        invalidSig   == GoDiv(rpcReceived + p2pReceived, 100)
        nonceInvalid == GoDiv(rpcReceived + p2pReceived, 200)
        insufficientBalance == GoDiv(rpcReceived + p2pReceived, 500)
        toMempool    == rpcReceived + p2pReceived - invalidSig
        toBlockBuilding == toMempool - nonceInvalid
        toConsensus  == toBlockBuilding - insufficientBalance
    IN  <<Link("submission_rpc", "mempool", rpcReceived),
          Link("submission_p2p", "mempool", p2pReceived),
          Link("mempool", "block_building", toBlockBuilding),
          Link("mempool", "dropped", invalidSig + nonceInvalid),
          Link("block_building", "consensus_proposed", toConsensus),
          Link("block_building", "dropped", insufficientBalance),
          Link("consensus_proposed", "consensus_voted", toConsensus),
          Link("consensus_voted", "consensus_finalized", toConsensus),
          Link("consensus_finalized", "execution", toConsensus),
          Link("execution", "state_update", toConsensus),
          Link("state_update", "finality", toConsensus)>>

\* The in map and the verification drops of the out map built by the block
\* estimation of GenerateWaterfallFromSubscriber,
\* txCount := int64(block.Transactions)
LegacyBlockEstimate(txCount) ==
    LET rpcReceived  == GoDiv(txCount * 5, 10)
        p2pReceived  == GoDiv(txCount * 5, 10)
        totalIngress == rpcReceived + p2pReceived
    IN  [rpc |-> rpcReceived, p2p |-> p2pReceived, gossip |-> p2pReceived,
         verify_failed  |-> GoDiv(totalIngress, 20),
         nonce_failed   |-> GoDiv(totalIngress, 50),
         balance_failed |-> GoDiv(totalIngress, 100)]

\* The links array of generateMonadMockWaterfall()
MockLinks ==
    <<Link("submission_rpc", "mempool", 700),
      Link("submission_p2p", "mempool", 300),
      Link("mempool", "block_building", 950),
      Link("mempool", "dropped", 50),
      Link("block_building", "consensus_proposed", 930),
      Link("block_building", "dropped", 20),
      Link("consensus_proposed", "consensus_voted", 930),
      Link("consensus_voted", "consensus_finalized", 930),
      Link("consensus_finalized", "execution", 930),
      Link("execution", "state_update", 925),
      Link("execution", "dropped", 5),
      Link("state_update", "finality", 925)>>

\* No waterfall being built. tps is metadata.tps: Nil when the metadata has no
\* such key; flat holds the in/out maps of a waterfall of the legacy shape;
\* txCount is the transaction count of the block an estimation was made from.
NoOutput == [path |-> "none", links |-> <<>>, tps |-> Nil, flat |-> Nil, txCount |-> Nil]

\* GenerateMonadWaterfall taking the Prometheus branch on the snapshot metrics.
WaterfallFromPrometheus(metrics) ==
    /\ out = NoOutput
    /\ Positive(metrics.TPS60s)
    /\ Positive(metrics.InsertOwnedTxsRate) \/ Positive(metrics.InsertForwardedTxsRate)
    /\ out' = [path |-> generateMonadWaterfallFromPrometheus.selected,
               links |-> PrometheusLinks(metrics), tps |-> <<metrics.TPS60s>>,
               flat |-> Nil, txCount |-> Nil]
    /\ UNCHANGED notFlow

\* GenerateMonadWaterfall taking the IPC branch: the mock waterfall.
WaterfallFromIPC ==
    /\ out = NoOutput
    /\ out' = [path |-> generateMonadWaterfallFromIPC.selected, links |-> MockLinks,
               tps |-> Nil, flat |-> Nil, txCount |-> Nil]
    /\ UNCHANGED notFlow

\* GenerateMonadWaterfall taking the block-estimation branch on the latest block.
WaterfallFromBlock(txs) ==
    /\ out = NoOutput
    /\ out' = [path |-> generateMonadWaterfallFromBlock.selected,
               links |-> BlockLinks(txs), tps |-> Nil, flat |-> Nil,
               txCount |-> <<txs>>]
    /\ UNCHANGED notFlow

\* GenerateWaterfallFromSubscriber reaching its block estimation on the latest
\* block.
LegacyFromBlock(txs) ==
    /\ out = NoOutput
    /\ out' = [path |-> GenerateWaterfallFromSubscriberBlock.selected, links |-> <<>>,
               tps |-> Nil, flat |-> <<LegacyBlockEstimate(txs)>>, txCount |-> <<txs>>]
    /\ UNCHANGED notFlow

\* GenerateMonadWaterfall falling through to the mock data.
WaterfallMock ==
    /\ out = NoOutput
    /\ out' = [path |-> generateMonadMockWaterfall.selected, links |-> MockLinks,
               tps |-> Nil, flat |-> Nil, txCount |-> Nil]
    /\ UNCHANGED notFlow

\* promCollector.GetMetrics(): the copy of the snapshot; the drop counters
\* are absent from the scraped documents, so their rates are 0.
GetMetrics(c) ==
    [TPS60s |-> c.TPS60s,
     InsertOwnedTxsRate |-> c.InsertOwnedTxsRate,
     InsertForwardedTxsRate |-> c.InsertForwardedTxsRate,
     DropInvalidSignatureRate |-> ZeroRate,
     DropNonceTooLowRate |-> ZeroRate,
     DropFeeTooLowRate |-> ZeroRate,
     DropInsufficientBalanceRate |-> ZeroRate,
     DropPoolFullRate |-> ZeroRate]

\* GenerateMonadWaterfall called on the collectors and the subscriber as they
\* are: the branch taken, the source tag, the links and metadata.tps.
ServeMonadWaterfall ==
    /\ out = NoOutput
    /\ wf' = [gen |-> "v2", selected |-> GenerateMonadWaterfall.selected,
              source |-> GenerateMonadWaterfall.source]
    /\ out' = [path  |-> GenerateMonadWaterfall.selected,
               links |-> IF UsePrometheus
                         THEN PrometheusLinks(GetMetrics(prometheusCollector[1]))
                         ELSE IF UseIPC THEN MockLinks
                         ELSE IF UseBlock
                              THEN BlockLinks(GetLatestBlock[1].Transactions)
                              ELSE MockLinks,
               tps   |-> IF UsePrometheus THEN <<prometheusCollector[1].TPS60s>>
                         ELSE Nil,
               flat  |-> Nil,
               txCount |-> IF ~UsePrometheus /\ ~UseIPC /\ UseBlock
                           THEN <<monadSubscriber[1].latestBlock[1].Transactions>>
                           ELSE Nil]
    /\ UNCHANGED <<trackerVars, wsVars, subVars, scrapeVars, lockVars,
                   now, prometheusCollector, ipcCollector, monadSubscriber>>

\* The handler has written the waterfall to its client and returned.
WaterfallSent ==
    /\ out # NoOutput
    /\ out' = NoOutput
    /\ UNCHANGED notFlow

(***************************************************************************)
(* WebSocket clients: registry, handshake, broadcast loop, log fan-out     *)
(***************************************************************************)
Clients == {"A", "B"}

\* time.NewTicker(200 * time.Millisecond)
TickMs == 200

\* NewMonadSubscriber: maxHistorySize: 200
maxHistorySize == 200

\* The loop has not emitted estimated_tps yet / has not observed a height yet.
Never == 0 - 1

NoHeight == 0 - 1

\* Keys written by sendInitialSummaryMessages, in order.
SummaryKeys ==
    <<"version", "cluster", "identity_key", "startup_time_nanos",
      "startup_progress", "vote_state">>

\* sendPeersMessage, sendEpochMessage
PeersKeys == <<"peers_update">>

EpochKeys == <<"epoch_new">>

\* Keys written by one iteration of sendFiredancerUpdates, in order.
TickKeys ==
    <<"ping", "estimated_slot", "root_slot", "completed_slot", "estimated_tps",
      "live_txn_waterfall", "vote_distance", "tps_history">>

\* A client before its upgrade request.
NewClient ==
    [handler |-> "none", loop |-> "off", reader |-> "off", stalled |-> FALSE,
     lastTick |-> <<>>, wire |-> <<>>, seenHeight |-> NoHeight, sinceTps |-> Never]

\* The keys of ks written before the write number failAt fails (0: none fails).
Attempt(ks, failAt) == SubSeq(ks, 1, IF failAt = 0 THEN Len(ks) ELSE failAt - 1)

\* The connection's output after writing ks: its first MaxWire messages.
Written(w, ks) ==
    LET a == w \o ks
    IN  SubSeq(a, 1, IF Len(a) <= MaxWire THEN Len(a) ELSE MaxWire)

\* addTPSToHistory(oneSecondTPS, avgTPS, instantTPS)
addTPSToHistory(h, oneSecondTPS, avgTPS, instantTPS) ==
    LET a == Append(h, <<oneSecondTPS, 0, avgTPS, instantTPS>>)
    IN  IF Len(a) > maxHistorySize THEN Tail(a) ELSE a

\* monadSubscriber != nil && monadSubscriber.IsConnected()
SubscriberConnected == monadSubscriber # Nil /\ monadSubscriber[1].isConnected

\* handleWebSocket up to registerWSClient: upgrade and register.
Upgrade(c) ==
    /\ cl[c].handler = "none"
    /\ broadcaster = "idle"
    /\ cl' = [cl EXCEPT ![c].handler = "registered"]
    /\ wsClients' = wsClients \cup {c}
    /\ UNCHANGED <<height, tpsHistory, broadcaster, undelivered, writeErrors, notWs>>

\* One handshake call of handleWebSocket: from position `from` it writes ks
\* and moves to position `to`; a failing write makes the handler return, a
\* stalled peer blocks it in the write.
HandshakeStep(c, from, ks, to, failAt) ==
    /\ cl[c].handler = from
    /\ cl' = [cl EXCEPT ![c] =
                IF cl[c].stalled THEN [@ EXCEPT !.handler = "blocked"]
                ELSE IF failAt # 0
                THEN [@ EXCEPT !.handler = "returning",
                               !.wire = Written(@, Attempt(ks, failAt))]
                ELSE IF to = "waiting"
                THEN [@ EXCEPT !.handler = "waiting", !.reader = "reading",
                               !.loop = "ticking", !.wire = Written(@, ks)]
                ELSE [@ EXCEPT !.handler = to, !.wire = Written(@, ks)]]
    /\ UNCHANGED <<height, wsClients, tpsHistory, broadcaster, undelivered, writeErrors, notWs>>

sendInitialSummaryMessages(c, failAt) ==
    HandshakeStep(c, "registered", SummaryKeys, "summary", failAt)

sendPeersMessage(c, failAt) ==
    HandshakeStep(c, "summary", PeersKeys, "peers", failAt)

\* sendEpochMessage, then the reader goroutine and sendFiredancerUpdates start
\* and the handler waits on <-done.
sendEpochMessage(c, failAt) ==
    HandshakeStep(c, "peers", EpochKeys, "waiting", failAt)

\* Time from a client's latest estimated_tps message to the tick after a tick
\* that did not send one.
Elapse(since) ==
    IF since = Never THEN Never
    ELSE IF since + TickMs >= MaxElapsedMs THEN MaxElapsedMs ELSE since + TickMs

\* One iteration of sendFiredancerUpdates on a ticker tick. fetchOk: the
\* result of monadClient.GetConsensusMetrics(); failAt: the write that fails.
\* (pingID, written into the ping message only, is left out. lastTick,
\* seenHeight and sinceTps record what the iteration did; the latter two end
\* with the goroutine.)
LoopTick(c, fetchOk, failAt) ==
    LET fail    == IF cl[c].handler = "closed" THEN 1 ELSE failAt
        emitted == Attempt(TickKeys, fail)
        reached == fail = 0 \/ fail > 4
        sentTps == fail = 0 \/ fail > 5
    IN  /\ cl[c].loop = "ticking"
        /\ Len(tpsHistory) < MaxPoints
        /\ IF ~fetchOk
           THEN /\ cl' = [cl EXCEPT ![c].lastTick = <<>>,
                                    ![c].sinceTps = Elapse(@)]
                /\ UNCHANGED tpsHistory
           ELSE IF cl[c].stalled /\ cl[c].handler # "closed"
           THEN /\ cl' = [cl EXCEPT ![c].lastTick = <<>>, ![c].loop = "blocked"]
                /\ UNCHANGED tpsHistory
           ELSE /\ cl' = [cl EXCEPT ![c] =
                            [@ EXCEPT !.lastTick = emitted,
                                      !.wire = Written(@, emitted),
                                      !.seenHeight =
                                          IF fail = 0 THEN height ELSE NoHeight,
                                      !.sinceTps =
                                          IF fail # 0 THEN Never
                                          ELSE IF sentTps THEN 0 ELSE Elapse(@),
                                      !.loop = IF fail = 0 THEN "ticking"
                                               ELSE "returned"]]
                /\ tpsHistory' = IF reached /\ SubscriberConnected
                                 THEN addTPSToHistory(tpsHistory, 0, 0, 0)
                                 ELSE tpsHistory
        /\ UNCHANGED <<height, wsClients, broadcaster, undelivered, writeErrors, notWs>>

\* conn.ReadMessage() returns an error: the reader goroutine closes done.
ClientReadError(c) ==
    /\ cl[c].reader = "reading"
    /\ cl' = [cl EXCEPT ![c].reader = "done",
                        ![c].handler = IF @ = "waiting" THEN "returning" ELSE @]
    /\ UNCHANGED <<height, wsClients, tpsHistory, broadcaster, undelivered, writeErrors, notWs>>

\* handleWebSocket returns: the deferred unregisterWSClient takes the write
\* lock of the registry, then the deferred conn.Close() runs.
HandlerReturn(c) ==
    /\ cl[c].handler = "returning"
    /\ broadcaster = "idle"
    /\ wsClients' = wsClients \ {c}
    /\ cl' = [cl EXCEPT ![c].handler = "closed",
                        ![c].reader = IF @ = "reading" THEN "done" ELSE @,
                        ![c].loop = IF @ = "blocked" THEN "returned" ELSE @]
    /\ UNCHANGED <<height, tpsHistory, broadcaster, undelivered, writeErrors, notWs>>

\* The peer stops reading: from now on a write to its socket blocks.
Stall(c) ==
    /\ cl[c].handler \notin {"none", "closed"}
    /\ ~cl[c].stalled
    /\ cl' = [cl EXCEPT ![c].stalled = TRUE]
    /\ UNCHANGED <<height, wsClients, tpsHistory, broadcaster, undelivered, writeErrors, notWs>>

\* The upstream node commits a block.
NewBlock ==
    /\ height < MaxHeight
    /\ height' = height + 1
    /\ UNCHANGED <<cl, wsClients, tpsHistory, broadcaster, undelivered, writeErrors, notWs>>

\* broadcastToAllClients removing the clients whose write failed from the
\* registry.
broadcastTransactionLogUnregisters(reached, failed) ==
    LET stalledClients == {c \in wsClients : cl[c].stalled}
        tried == IF stalledClients = {} THEN wsClients ELSE reached
    IN  /\ broadcaster = "idle"
        /\ monadSubscriber # Nil
        /\ monadSubscriber[1].conn
        /\ wsClients # {}
        /\ reached \subseteq wsClients \ stalledClients
        /\ failed \subseteq tried
        /\ cl' = [c \in Clients |->
                    IF c \in tried \ failed
                    THEN [cl[c] EXCEPT !.wire = Written(@, <<"transaction_log">>)]
                    ELSE cl[c]]
        /\ broadcaster' = IF stalledClients = {} THEN "idle" ELSE "blocked"
        /\ undelivered' = undelivered \cup (wsClients \ tried)
        /\ writeErrors' = writeErrors \cup failed
        /\ wsClients' = wsClients \ failed
        /\ UNCHANGED <<height, tpsHistory, notWs>>

\* processSubscribedBlocks takes a log from LogsChannel; broadcastToAllClients
\* writes it to the registered clients one after the other, in map order,
\* under the read lock; reached: the clients tried before a stalled one;
\* failed: the clients whose WriteJSON returns an error, which is logged.
broadcastTransactionLog(reached, failed) ==
    LET stalledClients == {c \in wsClients : cl[c].stalled}
        tried == IF stalledClients = {} THEN wsClients ELSE reached
    IN  /\ broadcaster = "idle"
        /\ monadSubscriber # Nil
        /\ monadSubscriber[1].conn
        /\ wsClients # {}
        /\ reached \subseteq wsClients \ stalledClients
        /\ failed \subseteq tried
        /\ cl' = [c \in Clients |->
                    IF c \in tried \ failed
                    THEN [cl[c] EXCEPT !.wire = Written(@, <<"transaction_log">>)]
                    ELSE cl[c]]
        /\ broadcaster' = IF stalledClients = {} THEN "idle" ELSE "blocked"
        /\ undelivered' = undelivered \cup (wsClients \ tried)
        /\ writeErrors' = writeErrors \cup failed
        /\ UNCHANGED <<height, wsClients, tpsHistory, notWs>>

(***************************************************************************)
(* Locks and I/O: each function is reduced to the lock operations and the  *)
(* I/O calls it makes, in program order; its effect on the data is in the  *)
(* parts above.                                                            *)
(***************************************************************************)
\* wsClientsMu, s.mu of the subscriber, metricsMutex, ct.mu of the tracker
Mutexes == {"wsClientsMu", "s.mu", "metricsMutex", "ct.mu"}

\* The goroutines: startMetricsCollection (polling mode),
\* processSubscribedBlocks (subscription mode), an HTTP or WebSocket handler,
\* and a caller of Close.
Goroutines == {"poller", "consumer", "handler", "closer"}

Idle == [fn |-> "idle", i |-> 0]

Unlocked == [w |-> "", r |-> [g \in Goroutines |-> 0], pend |-> {}]

\* broadcastToAllClients with a registered client
broadcastToAllClients ==
    << <<"RLock", "wsClientsMu">>, <<"IO", "client.WriteJSON">>,
       <<"RUnlock", "wsClientsMu">> >>

\* MonadSubscriber.Close with a connection and both subscription ids
SubscriberClose ==
    << <<"Lock", "s.mu">>, <<"IO", "s.conn.WriteJSON">>, <<"IO", "s.conn.WriteJSON">>,
       <<"IO", "s.conn.Close">>, <<"Unlock", "s.mu">> >>

\* ConsensusTracker.OnBlockProposed
OnBlockProposedLocks == << <<"Lock", "ct.mu">>, <<"Unlock", "ct.mu">> >>

\* updateMetricsFromBlock
updateMetricsFromBlock ==
    << <<"Lock", "metricsMutex">> >> \o OnBlockProposedLocks \o
    << <<"IO", "monadClient.GetNetworkMetrics">>, <<"Unlock", "metricsMutex">> >>

\* updateMetrics
updateMetrics == << <<"Lock", "metricsMutex">>, <<"Unlock", "metricsMutex">> >>

\* updateMetricsFromMonad when the three fetches succeed
updateMetricsFromMonad ==
    << <<"Lock", "metricsMutex">>, <<"IO", "monadClient.GetConsensusMetrics">>,
       <<"IO", "monadClient.GetExecutionMetrics">>,
       <<"IO", "monadClient.GetNetworkMetrics">>, <<"Unlock", "metricsMutex">> >>

\* updateMetricsFromMonad when GetConsensusMetrics fails
updateMetricsFromMonadNoConsensus ==
    << <<"Lock", "metricsMutex">>, <<"IO", "monadClient.GetConsensusMetrics">> >>
    \o updateMetrics \o << <<"Unlock", "metricsMutex">> >>

\* updateMetricsFromMonad when GetExecutionMetrics fails
updateMetricsFromMonadNoExecution ==
    << <<"Lock", "metricsMutex">>, <<"IO", "monadClient.GetConsensusMetrics">>,
       <<"IO", "monadClient.GetExecutionMetrics">> >>
    \o updateMetrics \o << <<"Unlock", "metricsMutex">> >>

\* getCurrentMetrics
getCurrentMetrics == << <<"RLock", "metricsMutex">>, <<"RUnlock", "metricsMutex">> >>

\* ConsensusTracker.GetRecentBlocks
GetRecentBlocks == << <<"RLock", "ct.mu">>, <<"RUnlock", "ct.mu">> >>

\* ConsensusTracker.GetConsensusState: the map literal calls GetRecentBlocks(10)
GetConsensusStateLocks ==
    << <<"RLock", "ct.mu">> >> \o GetRecentBlocks \o << <<"RUnlock", "ct.mu">> >>

\* The code of each function a goroutine may call.
Code ==
    [broadcastToAllClients |-> broadcastToAllClients,
     Close |-> SubscriberClose,
     updateMetricsFromBlock |-> updateMetricsFromBlock,
     updateMetricsFromMonad |-> updateMetricsFromMonad,
     updateMetricsFromMonadNoConsensus |-> updateMetricsFromMonadNoConsensus,
     updateMetricsFromMonadNoExecution |-> updateMetricsFromMonadNoExecution,
     getCurrentMetrics |-> getCurrentMetrics,
     GetConsensusState |-> GetConsensusStateLocks]

\* What each goroutine calls: startMetricsCollection calls
\* updateMetricsFromMonad; processSubscribedBlocks calls
\* updateMetricsFromBlock and, through broadcastTransactionLog,
\* broadcastToAllClients; the handlers read the metrics snapshot and the
\* consensus state.
Calls ==
    [poller   |-> {"updateMetricsFromMonad", "updateMetricsFromMonadNoConsensus",
                   "updateMetricsFromMonadNoExecution"},
     consumer |-> {"updateMetricsFromBlock", "broadcastToAllClients"},
     handler  |-> {"getCurrentMetrics", "GetConsensusState"},
     closer   |-> {"Close"}]

\* The operation goroutine g is at.
Instr(g) == Code[pc[g].fn][pc[g].i]

At(g, op) == pc[g] # Idle /\ Instr(g)[1] = op

\* g has finished the operation it is at.
Advance(g) ==
    IF pc[g].i = Len(Code[pc[g].fn]) THEN [pc EXCEPT ![g] = Idle]
    ELSE [pc EXCEPT ![g].i = @ + 1]

\* The mutexes g holds, for writing or for reading.
Held(g) == {l \in Mutexes : mutex[l].w = g \/ mutex[l].r[g] > 0}

\* Goroutine g calls function fn.
Call(g, fn) ==
    /\ pc[g] = Idle
    /\ fn \in Calls[g]
    /\ pc' = [pc EXCEPT ![g] = [fn |-> fn, i |-> 1]]
    /\ UNCHANGED <<mutex, notLocks>>

\* RWMutex.Lock, first half: the writer announces itself; from now on RLock
\* blocks.
LockAnnounce(g) ==
    /\ At(g, "Lock")
    /\ g \notin mutex[Instr(g)[2]].pend
    /\ mutex' = [mutex EXCEPT ![Instr(g)[2]].pend = @ \cup {g}]
    /\ UNCHANGED <<pc, notLocks>>

\* RWMutex.Lock, second half: the writer gets the mutex once no writer and no
\* reader holds it.
LockAcquire(g) ==
    LET l == Instr(g)[2]
    IN  /\ At(g, "Lock")
        /\ g \in mutex[l].pend
        /\ mutex[l].w = ""
        /\ \A h \in Goroutines : mutex[l].r[h] = 0
        /\ mutex' = [mutex EXCEPT ![l].w = g, ![l].pend = @ \ {g}]
        /\ pc' = Advance(g)
        /\ UNCHANGED notLocks

\* RWMutex.RLock: blocks while a writer holds the mutex or waits for it.
RLock(g) ==
    LET l == Instr(g)[2]
    IN  /\ At(g, "RLock")
        /\ mutex[l].w = ""
        /\ mutex[l].pend = {}
        /\ mutex' = [mutex EXCEPT ![l].r[g] = @ + 1]
        /\ pc' = Advance(g)
        /\ UNCHANGED notLocks

\* RWMutex.Unlock
Unlock(g) ==
    /\ At(g, "Unlock")
    /\ mutex' = [mutex EXCEPT ![Instr(g)[2]].w = ""]
    /\ pc' = Advance(g)
    /\ UNCHANGED notLocks

\* RWMutex.RUnlock
RUnlock(g) ==
    /\ At(g, "RUnlock")
    /\ mutex' = [mutex EXCEPT ![Instr(g)[2]].r[g] = @ - 1]
    /\ pc' = Advance(g)
    /\ UNCHANGED notLocks

\* The I/O call g is in returns.
IOReturn(g) ==
    /\ At(g, "IO")
    /\ pc' = Advance(g)
    /\ UNCHANGED <<mutex, notLocks>>

(***************************************************************************)
(* Inputs and specifications                                               *)
(***************************************************************************)
\* Block numbers a caller may pass: any number of the free range, or the
\* successor of the highest block seen so far.
ProposedInputs == {n \in (0..FreeMax) \cup {currentBlock + 1} : n <= MaxBlock}

ExplicitInputs == 0..FreeMax

TrackerInit ==
    /\ blocks = <<>>
    /\ currentBlock = 0
    /\ finalizedBlock = 0
    /\ observed = {}

Propose == \E n \in ProposedInputs : OnBlockProposed(n)

Vote == \E n \in ExplicitInputs : OnBlockVoted(n)

Finalize == \E n \in ExplicitInputs : OnBlockFinalized(n)

SourceInit ==
    /\ now = 0
    /\ prometheusCollector = Nil
    /\ ipcCollector = Nil
    /\ monadSubscriber = Nil
    /\ wf = [gen |-> "none", selected |-> "none", source |-> "none"]

FlowInit == out = NoOutput

WsInit ==
    /\ height = 0
    /\ cl = [c \in Clients |-> NewClient]
    /\ wsClients = {}
    /\ tpsHistory = <<>>
    /\ broadcaster = "idle"
    /\ undelivered = {}
    /\ writeErrors = {}

SubInit ==
    /\ pending = {}
    /\ blockChan = <<>>
    /\ recentBlocks = <<>>
    /\ logsChan = 0
    /\ lastFrame = ""
    /\ errorChan = 0

ScrapeInit == scrapeErr = "none"

LockInit ==
    /\ pc = [g \in Goroutines |-> Idle]
    /\ mutex = [l \in Mutexes |-> Unlocked]

Init ==
    /\ TrackerInit /\ SourceInit /\ FlowInit /\ WsInit /\ SubInit /\ ScrapeInit
    /\ LockInit

NextProposed == Propose

NextTracker == Propose \/ Vote \/ Finalize

PromInit == \E ok \in BOOLEAN, doc \in Documents : InitializePrometheusCollector(ok, doc)

Scrape == \E doc \in Documents : collectMetrics("nil", doc)

IPCInit == \E ok \in BOOLEAN : InitializeIPCCollector(ok)

\* The subscriber started against an upstream that answers the monadLogs
\* request before it sends a notification.
SubscriberInit == \E ok \in BOOLEAN : InitializeSubscriber(ok, SubscribeReply(2, LogsId))

NewHead == \E n \in 1..MaxHeads : listenFrame(HeadsId, n, TRUE)

ReadError == \E ok \in BOOLEAN : listenReadErrorLogged(ok)

\* A successful poll of a node whose txpool counters are still zero.
PollIdle ==
    requestMetrics("nil", [hasResult |-> TRUE, insert_owned_txs |-> 0,
                           insert_forwarded_txs |-> 0])

Poll ==
    \E outcome \in PollOutcomes, reply \in IPCReplies : requestMetrics(outcome, reply)

\* A deployment with the IPC collector as its only source.
NextIpc == IPCInit \/ Poll \/ Tick \/ GenerateV2 \/ GenerateLegacy

SpecIpc == Init /\ [][NextIpc]_vars

NextSources ==
    \/ PromInit \/ Scrape \/ IPCInit \/ PollIdle \/ SubscriberInit
    \/ NewHead \/ ReadError \/ Tick \/ GenerateV2 \/ GenerateLegacy

\* Only OnBlockProposed is ever called (the production wiring).
\* Seconds between the two scrapes a snapshot's rates are computed from.
TimeDiffs == {ScrapePeriod, 2 * ScrapePeriod}

Diffs == (0 - 1)..MaxDiff

\* A snapshot as parseMetrics computes it from the growth of each counter.
Snapshot(t, tps, owned, fwd, sig, nonce, fee, bal, full) ==
    [TPS60s |-> Quot(tps, t),
     InsertOwnedTxsRate |-> Quot(owned, t),
     InsertForwardedTxsRate |-> Quot(fwd, t),
     DropInvalidSignatureRate |-> Quot(sig, t),
     DropNonceTooLowRate |-> Quot(nonce, t),
     DropFeeTooLowRate |-> Quot(fee, t),
     DropInsufficientBalanceRate |-> Quot(bal, t),
     DropPoolFullRate |-> Quot(full, t)]

FromPrometheus ==
    \E t \in TimeDiffs, tps \in 1..MaxDiff, owned \in Diffs, fwd \in Diffs,
       sig \in Diffs, nonce \in Diffs, fee \in Diffs, bal \in Diffs, full \in Diffs :
        WaterfallFromPrometheus(Snapshot(t, tps, owned, fwd, sig, nonce, fee, bal, full))

FromBlock == \E txs \in 0..MaxTxs : WaterfallFromBlock(txs)

FromBlockLegacy == \E txs \in 0..MaxTxs : LegacyFromBlock(txs)

\* The scrape sequence of a cold start: commits 100 -> 150 -> 180,
\* insert_owned_txs 10 -> 20 -> 20, no forwarded inserts.
ColdStartDocuments ==
    {[TxCommitsTotal |-> 100, InsertOwnedTxsTotal |-> 10, InsertForwardedTxsTotal |-> 0],
     [TxCommitsTotal |-> 150, InsertOwnedTxsTotal |-> 20, InsertForwardedTxsTotal |-> 0],
     [TxCommitsTotal |-> 180, InsertOwnedTxsTotal |-> 20, InsertForwardedTxsTotal |-> 0]}

ColdStartInit ==
    \E ok \in BOOLEAN, doc \in ColdStartDocuments : InitializePrometheusCollector(ok, doc)

ColdStartScrape ==
    \E outcome \in ScrapeOutcomes, doc \in ColdStartDocuments :
        collectMetrics(outcome, doc)

\* A deployment with the Prometheus collector only (no IPC socket, subscriber
\* not connected) serving the v2 waterfall.
NextColdStart ==
    ColdStartInit \/ ColdStartScrape \/ Tick \/ ServeMonadWaterfall \/ WaterfallSent

SpecColdStart == Init /\ [][NextColdStart]_vars

NextFlow ==
    \/ FromPrometheus \/ WaterfallFromIPC \/ FromBlock \/ FromBlockLegacy
    \/ WaterfallMock \/ WaterfallSent

SpecFlow == Init /\ [][NextFlow]_vars

Connect == \E c \in Clients : Upgrade(c)

Summary == \E c \in Clients, failAt \in 0..1 : sendInitialSummaryMessages(c, failAt)

Peers == \E c \in Clients, failAt \in 0..1 : sendPeersMessage(c, failAt)

Epoch == \E c \in Clients, failAt \in 0..1 : sendEpochMessage(c, failAt)

\* The write of an iteration that fails: none, the first (ping), the first
\* after the history append (estimated_tps), the last (tps_history).
TickFailures == {0, 1, 5, Len(TickKeys)}

Broadcast ==
    \E c \in Clients, fetchOk \in BOOLEAN, failAt \in TickFailures :
        LoopTick(c, fetchOk, failAt)

Disconnect == \E c \in Clients : ClientReadError(c)

Return == \E c \in Clients : HandlerReturn(c)

StopReading == \E c \in Clients : Stall(c)

\* A fan-out to clients whose sockets take the write or stall.
FanOut == \E reached \in SUBSET Clients : broadcastTransactionLog(reached, {})

NextLoop ==
    \/ Connect \/ Summary \/ Peers \/ Epoch \/ Broadcast \/ Disconnect \/ Return
    \/ NewBlock \/ SubscriberInit

SpecLoop == Init /\ [][NextLoop]_vars

\* The handler and its goroutines keep running; the peers and the upstream
\* node owe nothing.
SpecLoopFair ==
    /\ SpecLoop
    /\ WF_vars(Summary) /\ WF_vars(Peers) /\ WF_vars(Epoch)
    /\ WF_vars(Broadcast) /\ WF_vars(Return)

\* Iterations whose upstream fetch succeeds and whose first write fails or none.
BroadcastWrites == \E c \in Clients, failAt \in 0..1 : LoopTick(c, TRUE, failAt)

NextWs ==
    \/ Connect \/ Summary \/ Peers \/ Epoch \/ BroadcastWrites \/ Disconnect
    \/ Return \/ StopReading \/ FanOut \/ SubscriberInit

SpecWs == Init /\ [][NextWs]_vars

\* The handshake and the log fan-out, with failing writes.
NextFanOut ==
    \/ Connect \/ Summary \/ Peers \/ Epoch \/ Disconnect \/ Return
    \/ \E reached \in SUBSET Clients, failed \in SUBSET Clients :
           broadcastTransactionLog(reached, failed)
    \/ SubscriberInit

SpecFanOut == Init /\ [][NextFanOut]_vars

Enrich ==
    \E n \in 1..MaxHeads, fetchOk \in BOOLEAN, txs \in BlockTxs :
        enrichBlockWithTransactions(n, fetchOk, txs)

\* Entries inserted into the recent-blocks window so far, as the timestamp of
\* the newest entry tells: the inserted blocks have the timestamps 1, 2, ...
WindowInserts ==
    IF recentBlocks = <<>> THEN 0 ELSE recentBlocks[Len(recentBlocks)].Timestamp

\* addRecentBlock called for the next block.
WindowInsert ==
    /\ WindowInserts < MaxWindowInserts
    /\ \E txs \in BlockTxs :
           recentBlocks' = addRecentBlock(recentBlocks, WindowInserts + 1, txs)
    /\ UNCHANGED <<trackerVars, sourceVars, flowVars, wsVars, scrapeVars, lockVars,
                   pending, blockChan, logsChan, lastFrame, errorChan>>

\* Points appended to the TPS history so far, as the newest point tells: the
\* appended points carry the one-second TPS values 1, 2, ...
HistoryAppends ==
    IF tpsHistory = <<>> THEN 0 ELSE tpsHistory[Len(tpsHistory)][1]

\* addTPSToHistory called with the next point.
HistoryAppend ==
    /\ HistoryAppends < MaxAppends
    /\ tpsHistory' = addTPSToHistory(tpsHistory, HistoryAppends + 1, 0, 0)
    /\ UNCHANGED <<height, cl, wsClients, broadcaster, undelivered, writeErrors, notWs>>

NextWindow == WindowInsert \/ HistoryAppend

SpecWindow == Init /\ [][NextWindow]_vars

Frame ==
    \E subID \in SubIds, n \in 1..MaxHeads, parsed \in BOOLEAN :
        listenFrame(subID, n, parsed)

Shutdown == \E atTop \in BOOLEAN : Close(atTop)

NextSub ==
    \/ SubscriberInit \/ Frame \/ Enrich \/ processSubscribedBlocks
    \/ processSubscribedLogs \/ ReadError \/ Shutdown \/ listenCancelled

SpecSub == Init /\ [][NextSub]_vars

\* The subscriber started against an upstream that may send a notification
\* at any time.
NextConnect ==
    \/ \E ok \in BOOLEAN, second \in SecondFrames : InitializeSubscriber(ok, second)
    \/ Frame \/ Enrich \/ processSubscribedBlocks \/ processSubscribedLogs \/ ReadError

SpecConnect == Init /\ [][NextConnect]_vars

\* The subscriber with a consumer that may be slow to take the read errors.
NextErr ==
    \/ SubscriberInit \/ Frame \/ processSubscribedLogs
    \/ \E ok \in BOOLEAN : listenReadError(ok)
    \/ \E ok \in BOOLEAN : listenErrorSent(ok)
    \/ processSubscribedErrors \/ Shutdown \/ listenCancelled

SpecErr == Init /\ [][NextErr]_vars

ScrapeAny ==
    \E outcome \in ScrapeOutcomes, doc \in Documents : collectMetrics(outcome, doc)

NextLocks ==
    \/ \E g \in Goroutines, fn \in DOMAIN Code : Call(g, fn)
    \/ \E g \in Goroutines : LockAnnounce(g)
    \/ \E g \in Goroutines : LockAcquire(g)
    \/ \E g \in Goroutines : RLock(g)
    \/ \E g \in Goroutines : Unlock(g)
    \/ \E g \in Goroutines : RUnlock(g)
    \/ \E g \in Goroutines : IOReturn(g)

SpecLocks == Init /\ [][NextLocks]_vars

NextScrape == PromInit \/ ScrapeAny \/ Tick

SpecScrape == Init /\ [][NextScrape]_vars

SpecProposed == Init /\ [][NextProposed]_vars

\* OnBlockProposed, OnBlockVoted and OnBlockFinalized in any order.
SpecTracker == Init /\ [][NextTracker]_vars

\* The collectors, the subscriber and the waterfall generators.
SpecSources == Init /\ [][NextSources]_vars

(***************************************************************************)
(* Claims about the consensus tracker                                      *)
(***************************************************************************)
\* Order of the phases in the lifecycle PROPOSED -> VOTED -> FINALIZED.
C1_PhaseRank(p) ==
    CASE p = "proposed" -> 1 [] p = "voted" -> 2 [] p = "finalized" -> 3

C2_FinalizedNeverVoted ==
    [][\A b \in DOMAIN blocks \cap DOMAIN blocks' :
          blocks[b] = "finalized" => blocks'[b] = "finalized"]_vars

\* The postcondition C3 states for a call OnBlockProposed(N).
C3_Post(N) ==
    /\ \A b \in DOMAIN blocks : b + 2 <= N => blocks[b] = "finalized"
    /\ (N >= 1 /\ Exists(blocks, N - 1)) => blocks[N - 1] = "voted"

\* C3: after any OnBlockProposed(N) every tracked block <= N-2 is FINALIZED
\* and block N-1, if tracked, is VOTED.
C3_PhasesAfterProposed ==
    [][\A N \in 0..MaxBlock : OnBlockProposed(N) => C3_Post(N)']_vars

\* C4: when N is the latest block observed, N+1 and N+2 were never observed
\* and N+3 is observed next, then N is FINALIZED afterwards and N+1, N+2 are
\* unknown.
C4_GapFinalizes ==
    [][\A N \in 0..MaxBlock :
          (/\ Exists(blocks, N) /\ currentBlock = N
           /\ N + 1 \notin observed /\ N + 2 \notin observed
           /\ OnBlockProposed(N + 3))
          => (/\ GetBlockPhase(N)' = "finalized"
              /\ GetBlockPhase(N + 1)' = "unknown"
              /\ GetBlockPhase(N + 2)' = "unknown")]_vars

\* C5: the number of tracked blocks never exceeds maxHistory.
C5_HistoryBounded == Cardinality(DOMAIN blocks) <= maxHistory

\* C6: a second OnBlockProposed(N) right after a first one leaves the
\* tracker state exactly as the first call left it.
C6_ProposedIdempotent ==
    [][\A N \in 0..MaxBlock :
          OnBlockProposed(N) =>
              Proposed(blocks', currentBlock', finalizedBlock', N)
                  = [blocks |-> blocks', currentBlock |-> currentBlock',
                     finalizedBlock |-> finalizedBlock']]_vars

\* C7: the highest-finalized marker never decreases.
C7_FinalizedMarkerMonotonic == [][finalizedBlock' >= finalizedBlock]_vars

\* C8: finalized_block <= current_block in every reachable state, so
\* blocks_behind of GetConsensusState never wraps around.
C8_BlocksBehindNonNegative ==
    /\ finalizedBlock <= currentBlock
    /\ GetConsensusState.blocks_behind.wrap = FALSE
    /\ GetConsensusState.blocks_behind.v = currentBlock - finalizedBlock

\* GetConsensusState on a tracker that has finalized a block above 0 and is
\* two blocks ahead of it.
C8_Witness ==
    /\ finalizedBlock >= 1
    /\ GetConsensusState.blocks_behind = [wrap |-> FALSE, v |-> 2]

(***************************************************************************)
(* Claims about the waterfall source selection                             *)
(***************************************************************************)
\* The qualification rules as C9 states them.
C9_PrometheusQualifies ==
    /\ prometheusCollector # Nil
    /\ PromIsHealthy(prometheusCollector[1])
    /\ prometheusCollector[1].TPS60s.num # 0
    /\ \/ prometheusCollector[1].InsertOwnedTxsRate.num # 0
       \/ prometheusCollector[1].InsertForwardedTxsRate.num # 0

C9_IPCQualifies == ipcCollector # Nil /\ IPCIsHealthy(ipcCollector[1])

C9_BlockQualifies ==
    /\ monadSubscriber # Nil
    /\ monadSubscriber[1].isConnected
    /\ monadSubscriber[1].latestBlock # Nil

C9_FirstQualifying ==
    IF C9_PrometheusQualifies THEN "prometheus"
    ELSE IF C9_IPCQualifies THEN "ipc"
    ELSE IF C9_BlockQualifies THEN "block"
    ELSE "mock"

\* C9: every waterfall generation selects the first source that qualifies in
\* the order Prometheus, IPC, block estimation, mock, where Prometheus
\* qualifies iff it is healthy, its commits rate is non-zero and one of its
\* insert rates is non-zero.
C9_SourcePriority ==
    [][(GenerateV2 \/ GenerateLegacy) => wf'.selected = C9_FirstQualifying]_vars

\* The source tag C10 assigns to each selected source.
C10_TagOf(selected) ==
    CASE selected = "prometheus" -> "prometheus_metrics"
      [] selected = "ipc" -> "real_ipc_metrics"
      [] selected = "block" -> "block_estimation"
      [] selected = "mock" -> "mock_data"

\* C10: metadata.source of every lifecycle (v2) waterfall is one of the four
\* source tags and names the source the priority selection chose.
C10_SourceTagNamesSelection ==
    [][GenerateV2 =>
          /\ wf'.source \in {"prometheus_metrics", "real_ipc_metrics",
                             "block_estimation", "mock_data"}
          /\ wf'.source = C10_TagOf(wf'.selected)]_vars

(***************************************************************************)
(* Waterfall links                                                         *)
(***************************************************************************)
InteriorNodes ==
    {"mempool", "block_building", "consensus_proposed", "consensus_voted",
     "consensus_finalized", "execution", "state_update"}

RECURSIVE C11_Sum(_, _, _)
\* Sum of the values of the links of ls whose end `side` is node n.
C11_Sum(ls, side, n) ==
    IF ls = <<>> THEN 0
    ELSE (IF (IF side = "in" THEN ls[1].target ELSE ls[1].source) = n
          THEN ls[1].value ELSE 0) + C11_Sum(Tail(ls), side, n)

\* C11: in every waterfall output, for each interior node the values of the
\* links entering it sum to the values of the links leaving it (links to
\* dropped included), whatever the input rates and tx counts.
C11_FlowConserved ==
    \A n \in InteriorNodes : C11_Sum(out.links, "in", n) = C11_Sum(out.links, "out", n)

\* C12: no waterfall output from any source path contains a link whose value
\* is zero or negative.
C12_NoNonPositiveLink ==
    \A i \in 1..Len(out.links) : out.links[i].value > 0


(***************************************************************************)
(* Broadcast loop, handshake and registry                                  *)
(***************************************************************************)
\* An iteration of client c's loop that ran to its end.
C13_FullTick(c) ==
    /\ \E fetchOk \in BOOLEAN, failAt \in TickFailures : LoopTick(c, fetchOk, failAt)
    /\ cl'[c].loop = "ticking"

\* C13: a point is appended to the TPS history on a broadcast tick iff the
\* block height observed on the tick differs from the height observed on the
\* client's previous tick.
C13_AppendIffNewBlock ==
    [][\A c \in Clients :
          (C13_FullTick(c) /\ SubscriberConnected) =>
              ((Len(tpsHistory') = Len(tpsHistory) + 1)
                   <=> (cl'[c].seenHeight # cl[c].seenHeight))]_vars

\* C14: a tick emits estimated_tps only when at least 1 s has elapsed since
\* the client's previous estimated_tps message.
C14_TpsCadence ==
    [][\A c \in Clients :
          (/\ \E fetchOk \in BOOLEAN, failAt \in TickFailures :
                    LoopTick(c, fetchOk, failAt)
           /\ \E i \in 1..Len(cl'[c].lastTick) : cl'[c].lastTick[i] = "estimated_tps")
          => (cl[c].sinceTps = Never \/ cl[c].sinceTps + TickMs >= 1000)]_vars

\* The messages every tick emits, in order.
C15_AlwaysKeys ==
    <<"ping", "estimated_slot", "root_slot", "completed_slot", "live_txn_waterfall",
      "monad_waterfall_v2", "monad_consensus_state", "vote_distance">>

C15_IsAlwaysKey(k) == \E i \in 1..Len(C15_AlwaysKeys) : C15_AlwaysKeys[i] = k

\* C15: every tick of a client's loop emits ping, estimated_slot, root_slot,
\* completed_slot, the legacy waterfall, the new-format waterfall, the
\* consensus-state summary and vote_distance, in that order, also when the
\* upstream fetch failed.
C15_TickEmitsAll ==
    [][\A c \in Clients :
          C13_FullTick(c) =>
              SelectSeq(cl'[c].lastTick, C15_IsAlwaysKey) = C15_AlwaysKeys]_vars

\* C16: the first messages written to a client's connection are the summary
\* batch, the peers update and the epoch descriptor, in that order; nothing
\* else is written before them.
C16_HandshakeFirst ==
    \A c \in Clients :
        \A i \in 1..Len(cl[c].wire) :
            i <= Len(SummaryKeys \o PeersKeys \o EpochKeys)
                => cl[c].wire[i] = (SummaryKeys \o PeersKeys \o EpochKeys)[i]

\* C17: once a write of a client's broadcast loop has failed and the loop has
\* returned, the connection is eventually closed and the client eventually
\* removed from the registry.
C17_WriteFailureCleansUp ==
    \A c \in Clients :
        (cl[c].loop = "returned") ~> (cl[c].handler = "closed" /\ c \notin wsClients)

\* C18: a client whose socket write blocks delays only its own messages: the
\* log processing is never held in a write, and every client a
\* transaction-log broadcast did not reach is a stalled one.
C18_StalledClientIsolated ==
    /\ broadcaster = "idle"
    /\ \A c \in undelivered : cl[c].stalled

(***************************************************************************)
(* Subscriber: enrichment                                                  *)
(***************************************************************************)
\* C19: a header is visible on BlockChannel and through GetLatestBlock only
\* after its enrichment has completed and set its tx count.
C19_OnlyEnrichedVisible ==
    /\ \A i \in 1..Len(blockChan) : blockChan[i].enriched
    /\ (monadSubscriber # Nil /\ GetLatestBlock # Nil) => GetLatestBlock[1].enriched

(***************************************************************************)
(* Prometheus collector: failed scrapes                                    *)
(***************************************************************************)
\* C20: a scrape that fails (network error, non-2xx status, read error within
\* the body) leaves the published snapshot exactly as it was: counters, rates,
\* TPS and last-updated time.
C20_FailedScrapeKeepsSnapshot ==
    [][(\E outcome \in ScrapeFailures, doc \in Documents : collectMetrics(outcome, doc))
          => prometheusCollector' = prometheusCollector]_vars

\* A read error within the body has hit a collector whose snapshot carries a
\* positive TPS and is older than the attempt.
C20_Witness ==
    /\ scrapeErr = "read"
    /\ prometheusCollector # Nil
    /\ Positive(prometheusCollector[1].TPS60s)
    /\ prometheusCollector[1].LastUpdated < now

\* The float64 r is the quotient diff / dt (dt > 0).
C21_IsQuotient(r, diff, dt) == r.den > 0 /\ r.num * dt = diff * r.den

C21_AllZero(m) ==
    /\ m.TPS60s = ZeroRate
    /\ m.InsertOwnedTxsRate = ZeroRate
    /\ m.InsertForwardedTxsRate = ZeroRate

\* C21: after every successful scrape TPS and each counter rate are
\* (new - previous) / dt when the previous snapshot had a non-zero commits
\* total and dt > 0, and are exactly zero on the first snapshot and whenever
\* dt <= 0.
C21_RatesAreDifferenceQuotients ==
    [][/\ \A doc \in Documents :
              InitializePrometheusCollector(TRUE, doc)
                  => C21_AllZero(prometheusCollector'[1])
       /\ \A doc \in Documents :
              collectMetrics("nil", doc) =>
                  LET prev == prometheusCollector[1]
                      new  == prometheusCollector'[1]
                      dt   == now - prev.LastUpdateTime
                  IN  /\ (prev.TxCommitsTotal > 0 /\ dt > 0) =>
                            /\ C21_IsQuotient(new.TPS60s,
                                   new.TxCommitsTotal - prev.TxCommitsTotal, dt)
                            /\ C21_IsQuotient(new.InsertOwnedTxsRate,
                                   new.InsertOwnedTxsTotal - prev.InsertOwnedTxsTotal, dt)
                            /\ C21_IsQuotient(new.InsertForwardedTxsRate,
                                   new.InsertForwardedTxsTotal
                                       - prev.InsertForwardedTxsTotal, dt)
                      /\ dt <= 0 => C21_AllZero(new)]_vars

\* A scrape one period after a snapshot with commits found a higher commits
\* and a higher insert_owned counter.
C21_Witness ==
    /\ prometheusCollector # Nil
    /\ scrapeErr = "nil"
    /\ prometheusCollector[1].LastUpdateTime = now
    /\ now > 0
    /\ Positive(prometheusCollector[1].TPS60s)
    /\ Positive(prometheusCollector[1].InsertOwnedTxsRate)

\* C22: a collector that has been constructed or initialized but has never
\* completed a successful scrape or poll is not healthy: IsHealthy() is false
\* after an initialization whose test scrape failed (Prometheus) and after an
\* initialization of the IPC collector, which polls only on later ticks.
C22_HealthyOnlyAfterSuccess ==
    [][/\ \A doc \in Documents :
              InitializePrometheusCollector(FALSE, doc)
                  => ~PromIsHealthy(prometheusCollector'[1])
       /\ \A ok \in BOOLEAN :
              InitializeIPCCollector(ok) => ~IPCIsHealthy(ipcCollector'[1])]_vars

\* C23: an IPC poll cycle that fails at any step (dial, write, read, JSON
\* parse), or whose reply is valid JSON without the result fields, leaves the
\* cached IPC snapshot and its last-updated time unchanged.
C23_FailedPollKeepsSnapshot ==
    [][\A outcome \in PollOutcomes, reply \in IPCReplies :
           (requestMetrics(outcome, reply)
               /\ (outcome \in PollFailures \/ ~reply.hasResult))
           => ipcCollector' = ipcCollector]_vars

\* C24: after Close() has been called the listener does not dial again: no
\* new upstream connection is opened and no subscription request is sent.
C24_NoDialAfterClose ==
    [][\A dialOk \in BOOLEAN :
           listenReadError(dialOk) => ~monadSubscriber[1].cancelled]_vars

\* C25: a subscription frame whose id matches neither the stored newHeads id
\* nor the stored monadLogs id has no effect: nothing is published on the
\* block channel or the log channel, the latest block, the recent-blocks
\* window and the TPS history are unchanged, and the listener keeps reading.
C25_UnknownFrameDiscarded ==
    [][\A subID \in SubIds, n \in 1..MaxHeads, parsed \in BOOLEAN :
           (/\ listenFrame(subID, n, parsed)
            /\ subID # monadSubscriber[1].headsSubID
            /\ subID # monadSubscriber[1].logsSubID)
           => /\ UNCHANGED <<blockChan, logsChan, pending, recentBlocks, tpsHistory,
                             monadSubscriber>>
              /\ monadSubscriber'[1].listener = "reading"]_vars

\* The listener has just read a frame with an unknown subscription id, after
\* block frames and while a log is queued, and is still reading.
C25_Witness ==
    /\ lastFrame = UnknownId
    /\ monadSubscriber # Nil
    /\ monadSubscriber[1].listener = "reading"
    /\ monadSubscriber[1].latestBlock # Nil
    /\ logsChan > 0

\* The entries of the sequence after are the latest entries of before, in
\* their order, followed by one new entry, and at most cap entries are kept.
C26_FifoStep(before, after, cap) ==
    /\ Len(after) = (IF Len(before) + 1 > cap THEN cap ELSE Len(before) + 1)
    /\ \A i \in 1..(Len(after) - 1) :
           after[i] = before[i + Len(before) + 1 - Len(after)]

\* C26: the recent-blocks window never holds more than 10 entries and the TPS
\* history never more than 200; every insert appends the new entry at the end
\* and, at the cap, removes exactly the oldest entry, leaving the others
\* unchanged and in insertion order.
C26_BoundedFifo ==
    [][/\ Len(recentBlocks') <= 10
       /\ Len(tpsHistory') <= 200
       /\ recentBlocks' # recentBlocks => C26_FifoStep(recentBlocks, recentBlocks', 10)
       /\ tpsHistory' # tpsHistory => C26_FifoStep(tpsHistory, tpsHistory', 200)]_vars

\* Both buffers are full and have evicted their two oldest entries.
C26_Witness ==
    /\ Len(recentBlocks) = 10
    /\ recentBlocks[1].Timestamp = 3
    /\ Len(tpsHistory) = 200
    /\ tpsHistory[1][1] = 3

\* The sum of the tx counts of all blocks of the window rb whose timestamp is
\* >= (timestamp of the last block - 1).
RECURSIVE C27_SumFrom(_, _)
C27_SumFrom(rb, i) ==
    IF i > Len(rb) THEN 0
    ELSE (IF rb[i].Timestamp >= rb[Len(rb)].Timestamp - 1
          THEN rb[i].Transactions ELSE 0) + C27_SumFrom(rb, i + 1)

\* C27: for every reachable content of the recent-blocks window, a single
\* block included, the one-second TPS is the sum of the tx counts of all
\* blocks of the window with timestamp >= (timestamp of the last block - 1).
C27_OneSecondTpsIsWindowSum ==
    recentBlocks # <<>> =>
        calculateOneSecondTPS(recentBlocks) = C27_SumFrom(recentBlocks, 1)

\* The links of a single flow of value v through the chain of nodes ns.
C28_Chain(ns, v) == [i \in 1..(Len(ns) - 1) |-> Link(ns[i], ns[i + 1], v)]

\* The collector holds the snapshot of the second of two successful scrapes
\* 5 s apart in which commits went 100 -> 150 and insert_owned_txs 10 -> 20,
\* and is asked within its freshness window.
C28_Scenario ==
    /\ prometheusCollector # Nil
    /\ prometheusCollector[1].TxCommitsTotal = 150
    /\ prometheusCollector[1].InsertOwnedTxsTotal = 20
    /\ prometheusCollector[1].TPS60s = [num |-> 10, den |-> 1]
    /\ prometheusCollector[1].InsertOwnedTxsRate = [num |-> 2, den |-> 1]
    /\ prometheusCollector[1].InsertForwardedTxsRate = ZeroRate
    /\ PromIsHealthy(prometheusCollector[1])
    /\ ipcCollector = Nil
    /\ monadSubscriber = Nil

\* C28: given two successful scrapes 5 s apart in which commits go 100 to 150
\* and insert_owned_txs goes 10 to 20, with no drops and the subscriber
\* disconnected, the v2 waterfall has metadata.source prometheus_metrics,
\* metadata.tps 10 and a single flow of value 50 routed submission_rpc ->
\* mempool -> block_building -> consensus_proposed -> consensus_voted ->
\* consensus_finalized -> execution -> state_update -> finalized.
C28_ColdStartFlow50 ==
    [][(ServeMonadWaterfall /\ C28_Scenario) =>
          /\ wf'.source = "prometheus_metrics"
          /\ out'.tps = <<[num |-> 10, den |-> 1]>>
          /\ out'.links =
                 C28_Chain(<<"submission_rpc", "mempool", "block_building",
                             "consensus_proposed", "consensus_voted",
                             "consensus_finalized", "execution", "state_update",
                             "finalized">>, 50)]_vars

\* C28, amended: in that scenario the v2 waterfall has metadata.source
\* prometheus_metrics, metadata.tps 10 and a single flow of value 10 (the
\* growth of insert_owned_txs over the interval) routed submission_rpc ->
\* mempool -> block_building -> consensus_proposed -> consensus_voted ->
\* consensus_finalized -> execution -> state_update -> finality.
C28_ColdStartFlow10 ==
    [][(ServeMonadWaterfall /\ C28_Scenario) =>
          /\ wf'.source = "prometheus_metrics"
          /\ out'.tps = <<[num |-> 10, den |-> 1]>>
          /\ out'.links =
                 C28_Chain(<<"submission_rpc", "mempool", "block_building",
                             "consensus_proposed", "consensus_voted",
                             "consensus_finalized", "execution", "state_update",
                             "finality">>, 10)]_vars

\* The waterfall has been generated from the snapshot of the scenario.
C28_Witness ==
    /\ C28_Scenario
    /\ wf.gen = "v2"
    /\ out.path = "prometheus"
    /\ out.tps = <<[num |-> 10, den |-> 1]>>

\* The value of the link s -> t of the links array ls (0 when there is none).
C29_LinkValue(ls, s, t) ==
    LET is == {i \in 1..Len(ls) : ls[i].source = s /\ ls[i].target = t}
    IN  IF is = {} THEN 0 ELSE ls[CHOOSE i \in is : TRUE].value

\* C29: when block estimation is the selected source and the latest block has
\* tx count T, the output has submission_rpc = submission_p2p = T/2 and drops
\* for signature, nonce and balance of 1%, 0.5% and 0.2% of T (in whole
\* transactions), in the node/link shape, where the drops leave the mempool
\* (signature and nonce) and block building (balance), and in the legacy shape.
C29_BlockEstimationRatios ==
    out.path = "block" =>
        LET T == out.txCount[1]
        IN  IF out.flat = Nil
            THEN /\ C29_LinkValue(out.links, "submission_rpc", "mempool") = T \div 2
                 /\ C29_LinkValue(out.links, "submission_p2p", "mempool") = T \div 2
                 /\ C29_LinkValue(out.links, "mempool", "dropped")
                        = (T \div 100) + (T \div 200)
                 /\ C29_LinkValue(out.links, "block_building", "dropped") = T \div 500
            ELSE /\ out.flat[1].rpc = T \div 2
                 /\ out.flat[1].p2p = T \div 2
                 /\ out.flat[1].verify_failed = T \div 100
                 /\ out.flat[1].nonce_failed = T \div 200
                 /\ out.flat[1].balance_failed = T \div 500

\* C30: blocks are delivered on BlockChannel and applied to the consensus
\* tracker (OnBlockProposed) in the order in which their newHeads frames were
\* received, which is the order of their numbers: the headers queued on the
\* channel are in increasing order and all later than every block already
\* applied, however the enrichments interleave.
C30_DeliveredInFrameOrder ==
    /\ \A i, j \in 1..Len(blockChan) :
           i < j => blockChan[i].Number < blockChan[j].Number
    /\ \A i \in 1..Len(blockChan) :
           \A m \in observed : m < blockChan[i].Number

\* C31: given upstream headers that arrive with non-decreasing timestamps
\* (BlockTimestamp is non-decreasing in the block number), the timestamps of
\* the recent-blocks window are non-decreasing from oldest to newest in every
\* reachable state.
C31_WindowTimestampsSorted ==
    \A i, j \in 1..Len(recentBlocks) :
        i < j => recentBlocks[i].Timestamp <= recentBlocks[j].Timestamp

\* C32: no lock is ever held across an I/O call: a goroutine that is in an
\* I/O call (a write to a client socket, an unsubscribe write of Close, a
\* fetch from the upstream node) holds no mutex.
C32_NoLockAcrossIO ==
    \A g \in Goroutines : At(g, "IO") => Held(g) = {}

\* C37: a GetConsensusState call running concurrently with OnBlockProposed
\* calls always completes: no state is reached where a goroutine waits in
\* RLock for the tracker's mutex while it holds a read lock of that mutex
\* itself and a writer waits for the readers to leave, a state from which
\* neither of the two can ever move.
C37_NoRecursiveReadDeadlock ==
    \A g \in Goroutines :
        ~ /\ At(g, "RLock")
          /\ Instr(g)[2] = "ct.mu"
          /\ mutex["ct.mu"].r[g] > 0
          /\ mutex["ct.mu"].pend # {}

\* C38: in polling mode every call of updateMetricsFromMonad returns and
\* releases the metrics-snapshot lock, also on its fallback to updateMetrics:
\* the polling goroutine never waits in Lock for the metrics mutex while it
\* holds that mutex itself, a state in which it waits forever and every
\* later getCurrentMetrics blocks.
C38_UpdateReleasesLock ==
    ~ /\ At("poller", "Lock")
      /\ Instr("poller")[2] = "metricsMutex"
      /\ mutex["metricsMutex"].w = "poller"

\* C33: every send the subscriber makes on its outbound channels (block, log
\* and error channel) is non-blocking, so the listener goroutine is never
\* blocked by a slow or absent consumer: the listener never waits in a send.
C33_ListenerNeverWaitsInSend ==
    monadSubscriber # Nil => monadSubscriber[1].listener # "sending"

\* C34: a write error met while fanning a transaction log out to the
\* registered clients does not change the registry, and the other clients of
\* the iteration are still written to: each of them has the log appended to
\* its connection's output.
C34_WriteErrorKeepsRegistry ==
    [][\A reached, failed \in SUBSET Clients :
           (broadcastTransactionLog(reached, failed) /\ failed # {})
           => /\ wsClients' = wsClients
              /\ \A c \in (IF \E d \in wsClients : cl[d].stalled
                           THEN reached ELSE wsClients) \ failed :
                     cl'[c].wire = Written(cl[c].wire, <<"transaction_log">>)]_vars

\* A write of a fan-out to one client has failed, that client is still
\* registered, and another registered client has the log on its connection.
C34_Witness ==
    \E c, d \in wsClients :
        /\ c \in writeErrors
        /\ d \notin writeErrors
        /\ \E i \in 1..Len(cl[d].wire) : cl[d].wire[i] = "transaction_log"

\* C35: at no time do two goroutines write concurrently to the same client
\* connection: the transaction-log fan-out is never inside a write to a
\* client (the only stalled one of the registry, whose socket holds the write)
\* while that client's handshake or broadcast loop is inside a write to the
\* same connection.
C35_NoConcurrentWrites ==
    \A c \in wsClients :
        ~ /\ broadcaster = "blocked"
          /\ cl[c].stalled
          /\ \A d \in wsClients \ {c} : ~cl[d].stalled
          /\ (cl[c].loop = "blocked" \/ cl[c].handler = "blocked")

\* C36: after the listener has recovered from a read error through a
\* successful re-dial and re-subscription, IsConnected() returns true while
\* the new listener is running: the exit of the old listener does not mark
\* the subscriber disconnected.
C36_ConnectedAfterRecovery ==
    [][(listenReadErrorLogged(TRUE) /\ monadSubscriber'[1].listener = "reading")
       => monadSubscriber'[1].isConnected]_vars

\* C39: whenever Connect has returned success, the stored newHeads and
\* monadLogs subscription ids are the ids the upstream returned in its replies
\* to the two requests, even if a newHeads notification arrived before the
\* monadLogs reply.
C39_StoredIdsAreReplies ==
    (monadSubscriber # Nil /\ monadSubscriber[1].conn)
    => /\ monadSubscriber[1].headsSubID = HeadsId
       /\ monadSubscriber[1].logsSubID = LogsId

\* C40: when a sample's cumulative counter is lower than in the previous
\* snapshot (counter reset), the derived rate and TPS for that sample are
\* zero, never negative: no snapshot holds a negative TPS or insert rate.
C40_NoNegativeRate ==
    prometheusCollector # Nil
    => /\ prometheusCollector[1].TPS60s.num >= 0
       /\ prometheusCollector[1].InsertOwnedTxsRate.num >= 0
       /\ prometheusCollector[1].InsertForwardedTxsRate.num >= 0

====
